---------------------------- MODULE Spec2Model ----------------------------
(***************************************************************************)
(* Verification model of mullvad-viz: the ingestion pipeline               *)
(* (tools/fetch-relays.js: lookup-table loading, coordinate resolution,    *)
(* record normalization and the ingest() run with its file writes), the    *)
(* lookup-table updater (tools/update-city-coords.js) and the serving      *)
(* endpoint GET /api/relays (server.js).                                   *)
(*                                                                         *)
(* Specifications: SpecResolve and SpecNormalize apply resolveCoordinates  *)
(* and mapApiRelayToCanonical to generated inputs; Spec is one ingest()    *)
(* run; SpecUpdate is one run of the updater and SpecUpdateFair the same   *)
(* run in which every awaited step is resumed; SpecServe is an ingest()    *)
(* run with requests to the endpoint at any point; SpecRefresh is a run of *)
(* the updater followed by an ingest() run on the disk it left.            *)
(*                                                                         *)
(* Conventions                                                             *)
(*  - A JavaScript string is a sequence of one-character strings, so that  *)
(*    toLowerCase / toUpperCase are computed character by character.       *)
(*  - A JavaScript value is a record tagged by t: undefined, null,         *)
(*    boolean, number (finite, Infinity or NaN), string, object, array.    *)
(*  - Coordinates are fixed-point integers in units of 1e-5 degree         *)
(*    (55.3781 is 5537810).                                                *)
(*  - Table keys are ordinary strings; names of Object.prototype members   *)
(*    ("constructor", ...) are outside the key universe.                   *)
(***************************************************************************)
EXTENDS Integers, Sequences, FiniteSets, TLC

VARIABLES
  pc,                 \* position of the running program (ingest, updater)
  fs,                 \* the files on disk, by path
  fs0,                \* the files as they were when the run started
  cityCoordsFromFile, \* module-level table (fetch-relays.js:112)
  countriesMap,       \* module-level table (fetch-relays.js:113)
  res,                \* what the upstream answered to fetch(), Undefined before
  apiRelays,          \* local of ingest(): the fetched collection
  sanitized,          \* local of ingest(): the mapped records
  writes,             \* the writeFile calls made so far and their outcomes
  exitCode,           \* process exit code, "running" until the process ends
  args,               \* arguments of the function applied by Resolve / Normalize
  ret,                \* value returned by that function
  argv,               \* updater: singleCity, force and all, as parsed by main()
  relays,             \* updater: local of main(), the loaded relays.json
  cityCoords,         \* updater: local of main(), the coordinate table
  citiesToProcess,    \* updater: local of main()
  cityIndex,          \* updater: loop index i of main() (from 0)
  cand,               \* updater: index of the candidate findCoordsForCity is at
  attempt,            \* updater: 1 for the first query of a candidate, 2 for the retry
  result,             \* updater: local of main(), what findCoordsForCity returned
  elapsed,            \* updater: ms since the last geocoding request returned
  inFlight,           \* updater: number of geocoding requests awaiting an answer
  requests,           \* updater: the geocoding requests issued so far, each with
                      \* the time since the one before and whether it found a place
  served              \* server: the last answer of GET /api/relays

ingestVars == <<cityCoordsFromFile, countriesMap, res, apiRelays, sanitized,
                args, ret>>

updaterVars == <<argv, relays, cityCoords, citiesToProcess, cityIndex, cand,
                 attempt, result, elapsed, inFlight, requests>>

vars == <<pc, fs, fs0, cityCoordsFromFile, countriesMap, res, apiRelays,
          sanitized, writes, exitCode, args, ret, argv, relays, cityCoords,
          citiesToProcess, cityIndex, cand, attempt, result, elapsed, inFlight,
          requests, served>>

---------------------------------------------------------------------------
(* Strings                                                                 *)

UpperAlpha == <<"A","B","C","D","E","F","G","H","I","J","K","L","M",
                "N","O","P","Q","R","S","T","U","V","W","X","Y","Z">>

LowerAlpha == <<"a","b","c","d","e","f","g","h","i","j","k","l","m",
                "n","o","p","q","r","s","t","u","v","w","x","y","z">>

AlphaIndex(alpha, c) == CHOOSE i \in 1..Len(alpha) : alpha[i] = c

toLowerCaseChar(c) ==
  IF \E i \in 1..Len(UpperAlpha) : UpperAlpha[i] = c
    THEN LowerAlpha[AlphaIndex(UpperAlpha, c)] ELSE c

toUpperCaseChar(c) ==
  IF \E i \in 1..Len(LowerAlpha) : LowerAlpha[i] = c
    THEN UpperAlpha[AlphaIndex(LowerAlpha, c)] ELSE c

\* toLowerCase leaving the string as it is
toLowerCase_Identity(s) == s

\* String.prototype.toLowerCase
toLowerCase(s) == [i \in 1..Len(s) |-> toLowerCaseChar(s[i])]

\* String.prototype.toUpperCase
toUpperCase(s) == [i \in 1..Len(s) |-> toUpperCaseChar(s[i])]

Digits == <<"0","1","2","3","4","5","6","7","8","9">>

RECURSIVE DecimalString(_)
DecimalString(n) ==
  IF n < 10 THEN <<Digits[n + 1]>>
  ELSE Append(DecimalString(n \div 10), Digits[(n % 10) + 1])

---------------------------------------------------------------------------
(* JavaScript values                                                       *)

Undefined == [t |-> "undefined"]
Null      == [t |-> "null"]
Bool(b)   == [t |-> "boolean", b |-> b]
Num(n)    == [t |-> "number", k |-> "finite", n |-> n]
Infinity  == [t |-> "number", k |-> "Infinity", n |-> 0]
NaN       == [t |-> "number", k |-> "NaN", n |-> 0]
Str(s)    == [t |-> "string", s |-> s]
Arr(a)    == [t |-> "array", a |-> a]
\* a plain object whose own properties are the domain of f
Obj(f)    == [t |-> "object", f |-> f]
\* an object with (at most) the properties lat and lon; Undefined = absent
Entry(lat, lon) == [t |-> "entry", lat |-> lat, lon |-> lon]
\* a thrown TypeError, as the outcome of evaluating an expression
Throw     == [t |-> "throw"]

EmptyString == Str(<<>>)

\* the typeof operator
TypeOf(v) ==
  CASE v.t = "undefined" -> "undefined"
    [] v.t = "boolean"   -> "boolean"
    [] v.t = "number"    -> "number"
    [] v.t = "string"    -> "string"
    [] OTHER             -> "object"

\* ToBoolean: the truthiness used by if (...), ||, && and !
Truthy(v) ==
  CASE v.t = "undefined" -> FALSE
    [] v.t = "null"      -> FALSE
    [] v.t = "boolean"   -> v.b
    [] v.t = "number"    -> (v.k = "Infinity") \/ (v.k = "finite" /\ v.n # 0)
    [] v.t = "string"    -> v.s # <<>>
    [] OTHER             -> TRUE

\* a || b
Or(a, b) == IF Truthy(a) THEN a ELSE b

IsFinite(v) == v.t = "number" /\ v.k = "finite"

\* JsString, for the values that reach it (String(x), x.toString(), obj[x])
JsString(v) ==
  CASE v.t = "string"    -> v.s
    [] v.t = "number"    ->
         IF v.k = "finite"
           THEN (IF v.n < 0 THEN <<"-">> \o DecimalString(-v.n) ELSE DecimalString(v.n))
           ELSE IF v.k = "NaN" THEN <<"N","a","N">>
           ELSE <<"I","n","f","i","n","i","t","y">>
    [] v.t = "boolean"   -> IF v.b THEN <<"t","r","u","e">> ELSE <<"f","a","l","s","e">>
    [] v.t = "undefined" -> <<"u","n","d","e","f","i","n","e","d">>
    [] v.t = "null"      -> <<"n","u","l","l">>
    [] OTHER             -> <<"[","o","b","j","e","c","t"," ","O","b","j","e","c","t","]">>

\* Number(x), for the values that reach it
ToNumber(v) ==
  CASE v.t = "number"    -> v
    [] v.t = "null"      -> Num(0)
    [] v.t = "boolean"   -> IF v.b THEN Num(1) ELSE Num(0)
    [] OTHER             -> NaN

\* obj[key] on a table value: an own property, else undefined; on null or
\* undefined the access throws.
Lookup(obj, key) ==
  CASE obj.t \in {"null", "undefined"}  -> Throw
    [] obj.t = "object"                 -> IF key \in DOMAIN obj.f THEN obj.f[key] ELSE Undefined
    [] OTHER                            -> Undefined

\* v.lat / v.lon on a truthy table entry
Field(v, name) ==
  IF v.t = "entry" THEN (IF name = "lat" THEN v.lat ELSE v.lon) ELSE Undefined

\* JSON.stringify followed by JSON.parse, on one value: a non-finite number
\* is written as null.
JsonNumber(v) == IF v.t = "number" /\ v.k # "finite" THEN Null ELSE v

---------------------------------------------------------------------------
(* Built-in tables of tools/fetch-relays.js                                *)

\* friendly fallback map for city codes
cityCodeToCityName ==
  (<<"s", "e", "a">> :> <<"S", "e", "a", "t", "t", "l", "e">>) @@
  (<<"l", "a", "x">> :> <<"L", "o", "s", " ", "A", "n", "g", "e", "l", "e", "s">>) @@
  (<<"t", "o", "r">> :> <<"T", "o", "r", "o", "n", "t", "o">>) @@
  (<<"v", "a", "n">> :> <<"V", "a", "n", "c", "o", "u", "v", "e", "r">>) @@
  (<<"s", "f", "o">> :> <<"S", "a", "n", " ", "F", "r", "a", "n", "c", "i", "s", "c", "o">>) @@
  (<<"t", "i", "a">> :> <<"T", "i", "r", "a", "n", "a">>) @@
  (<<"d", "a", "l">> :> <<"D", "a", "l", "l", "a", "s">>) @@
  (<<"c", "h", "i">> :> <<"C", "h", "i", "c", "a", "g", "o">>) @@
  (<<"n", "y", "c">> :> <<"N", "e", "w", " ", "Y", "o", "r", "k">>) @@
  (<<"a", "d", "l">> :> <<"A", "d", "e", "l", "a", "i", "d", "e">>) @@
  (<<"m", "e", "l">> :> <<"M", "e", "l", "b", "o", "u", "r", "n", "e">>) @@
  (<<"p", "e", "r">> :> <<"P", "e", "r", "t", "h">>) @@
  (<<"s", "y", "d">> :> <<"S", "y", "d", "n", "e", "y">>) @@
  (<<"y", "y", "c">> :> <<"C", "a", "l", "g", "a", "r", "y">>) @@
  (<<"m", "t", "r">> :> <<"M", "o", "n", "t", "r", "e", "a", "l">>) @@
  (<<"p", "a", "r">> :> <<"P", "a", "r", "i", "s">>) @@
  (<<"b", "r", "u">> :> <<"B", "r", "u", "s", "s", "e", "l", "s">>) @@
  (<<"v", "i", "e">> :> <<"V", "i", "e", "n", "n", "a">>) @@
  (<<"s", "o", "f">> :> <<"S", "o", "f", "i", "a">>) @@
  (<<"h", "e", "l">> :> <<"H", "e", "l", "s", "i", "n", "k", "i">>) @@
  (<<"c", "p", "h">> :> <<"C", "o", "p", "e", "n", "h", "a", "g", "e", "n">>) @@
  (<<"l", "o", "n">> :> <<"L", "o", "n", "d", "o", "n">>) @@
  (<<"b", "o", "s">> :> <<"B", "o", "s", "t", "o", "n">>) @@
  (<<"w", "a", "s">> :> <<"W", "a", "s", "h", "i", "n", "g", "t", "o", "n", " ", "D", "C">>) @@
  (<<"d", "e", "n">> :> <<"D", "e", "n", "v", "e", "r">>) @@
  (<<"a", "t", "l">> :> <<"A", "t", "l", "a", "n", "t", "a">>) @@
  (<<"p", "h", "x">> :> <<"P", "h", "o", "e", "n", "i", "x">>) @@
  (<<"s", "c", "l">> :> <<"S", "a", "n", "t", "i", "a", "g", "o">>)

\* basic fallback country names
countryCodeToName ==
  (<<"U", "S">> :> <<"U", "n", "i", "t", "e", "d", " ", "S", "t", "a", "t", "e", "s">>) @@
  (<<"G", "B">> :> <<"U", "n", "i", "t", "e", "d", " ", "K", "i", "n", "g", "d", "o", "m">>) @@
  (<<"A", "U">> :> <<"A", "u", "s", "t", "r", "a", "l", "i", "a">>) @@
  (<<"D", "E">> :> <<"G", "e", "r", "m", "a", "n", "y">>) @@
  (<<"F", "R">> :> <<"F", "r", "a", "n", "c", "e">>) @@
  (<<"N", "L">> :> <<"N", "e", "t", "h", "e", "r", "l", "a", "n", "d", "s">>) @@
  (<<"B", "E">> :> <<"B", "e", "l", "g", "i", "u", "m">>) @@
  (<<"C", "A">> :> <<"C", "a", "n", "a", "d", "a">>) @@
  (<<"D", "K">> :> <<"D", "e", "n", "m", "a", "r", "k">>) @@
  (<<"E", "S">> :> <<"S", "p", "a", "i", "n">>) @@
  (<<"F", "I">> :> <<"F", "i", "n", "l", "a", "n", "d">>) @@
  (<<"S", "E">> :> <<"S", "w", "e", "d", "e", "n">>) @@
  (<<"G", "R">> :> <<"G", "r", "e", "e", "c", "e">>) @@
  (<<"A", "T">> :> <<"A", "u", "s", "t", "r", "i", "a">>) @@
  (<<"I", "E">> :> <<"I", "r", "e", "l", "a", "n", "d">>) @@
  (<<"C", "H">> :> <<"S", "w", "i", "t", "z", "e", "r", "l", "a", "n", "d">>) @@
  (<<"P", "T">> :> <<"P", "o", "r", "t", "u", "g", "a", "l">>) @@
  (<<"C", "Y">> :> <<"C", "y", "p", "r", "u", "s">>) @@
  (<<"E", "E">> :> <<"E", "s", "t", "o", "n", "i", "a">>) @@
  (<<"R", "O">> :> <<"R", "o", "m", "a", "n", "i", "a">>) @@
  (<<"P", "L">> :> <<"P", "o", "l", "a", "n", "d">>) @@
  (<<"C", "Z">> :> <<"C", "z", "e", "c", "h", "i", "a">>) @@
  (<<"N", "O">> :> <<"N", "o", "r", "w", "a", "y">>) @@
  (<<"I", "T">> :> <<"I", "t", "a", "l", "y">>) @@
  (<<"J", "P">> :> <<"J", "a", "p", "a", "n">>) @@
  (<<"C", "N">> :> <<"C", "h", "i", "n", "a">>) @@
  (<<"K", "R">> :> <<"S", "o", "u", "t", "h", " ", "K", "o", "r", "e", "a">>) @@
  (<<"M", "X">> :> <<"M", "e", "x", "i", "c", "o">>) @@
  (<<"B", "R">> :> <<"B", "r", "a", "z", "i", "l">>) @@
  (<<"C", "L">> :> <<"C", "h", "i", "l", "e">>) @@
  (<<"C", "O">> :> <<"C", "o", "l", "o", "m", "b", "i", "a">>) @@
  (<<"Z", "A">> :> <<"S", "o", "u", "t", "h", " ", "A", "f", "r", "i", "c", "a">>) @@
  (<<"S", "G">> :> <<"S", "i", "n", "g", "a", "p", "o", "r", "e">>) @@
  (<<"N", "Z">> :> <<"N", "e", "w", " ", "Z", "e", "a", "l", "a", "n", "d">>) @@
  (<<"I", "L">> :> <<"I", "s", "r", "a", "e", "l">>)

\* country centroids, [lat, lon]
countryCentroids ==
  (<<"U", "n", "i", "t", "e", "d", " ", "S", "t", "a", "t", "e", "s">> :> Arr(<<Num(3709020), Num(-9571290)>>)) @@
  (<<"U", "n", "i", "t", "e", "d", " ", "K", "i", "n", "g", "d", "o", "m">> :> Arr(<<Num(5537810), Num(-343600)>>)) @@
  (<<"A", "u", "s", "t", "r", "a", "l", "i", "a">> :> Arr(<<Num(-2527440), Num(13377510)>>)) @@
  (<<"G", "e", "r", "m", "a", "n", "y">> :> Arr(<<Num(5116570), Num(1045150)>>)) @@
  (<<"F", "r", "a", "n", "c", "e">> :> Arr(<<Num(4622760), Num(221370)>>)) @@
  (<<"N", "e", "t", "h", "e", "r", "l", "a", "n", "d", "s">> :> Arr(<<Num(5214000), Num(529130)>>)) @@
  (<<"C", "a", "n", "a", "d", "a">> :> Arr(<<Num(5613040), Num(-10634680)>>))

---------------------------------------------------------------------------
(* Coordinate resolution                                                   *)

\* marker: a step of resolveCoordinates fell through to the next one
NoMatch == [t |-> "nomatch"]

\* getCountryNameFromCode with the built-in table consulted before the loaded
\* one
getCountryNameFromCode_BuiltinFirst(code) ==
  IF ~Truthy(code) THEN Str(<<"U","n","k","n","o","w","n">>)
  ELSE LET c == toUpperCase(JsString(code)) IN
       IF c \in DOMAIN countryCodeToName THEN Str(countryCodeToName[c])
       ELSE IF Truthy(Lookup(countriesMap, c)) THEN Lookup(countriesMap, c)
       ELSE Str(<<"U","n","k","n","o","w","n">>)

\* getCountryNameFromCode(code), with code a JavaScript value
getCountryNameFromCode(code) ==
  IF ~Truthy(code) THEN Str(<<"U","n","k","n","o","w","n">>)
  ELSE LET c == toUpperCase(JsString(code)) IN
       IF Truthy(Lookup(countriesMap, c)) THEN Lookup(countriesMap, c)
       ELSE IF c \in DOMAIN countryCodeToName THEN Str(countryCodeToName[c])
       ELSE Str(<<"U","n","k","n","o","w","n">>)

\* typeof v.lat === 'number' && typeof v.lon === 'number'
NumericPair(v) ==
  TypeOf(Field(v, "lat")) = "number" /\ TypeOf(Field(v, "lon")) = "number"

\* if (cityCoordsFromFile[key]) { const v = ...; if (typeof ...) return [v.lat, v.lon]; }
TryKey(key) ==
  LET v == Lookup(cityCoordsFromFile, key) IN
  IF v = Throw THEN Throw
  ELSE IF Truthy(v) /\ NumericPair(v) THEN Arr(<<v.lat, v.lon>>)
  ELSE NoMatch

\* resolveCoordinates with the city-name steps tried before the city code
resolveCoordinates_NameBeforeCode(countryCode, cityCode, cityName) ==
  LET byCode ==
        IF Truthy(cityCode) THEN TryKey(JsString(cityCode)) ELSE NoMatch
      byLowerName ==
        IF Truthy(cityName)
          THEN (IF cityName.t # "string" THEN Throw ELSE TryKey(toLowerCase(cityName.s)))
          ELSE NoMatch
      byName ==
        IF Truthy(cityName) THEN TryKey(cityName.s) ELSE NoMatch
      byFriendly ==
        IF Truthy(cityCode) /\ JsString(cityCode) \in DOMAIN cityCodeToCityName
          THEN TryKey(cityCodeToCityName[JsString(cityCode)])
          ELSE NoMatch
      country == getCountryNameFromCode(countryCode)
      byCountry ==
        IF Truthy(country) /\ JsString(country) \in DOMAIN countryCentroids
          THEN countryCentroids[JsString(country)]
          ELSE Null
  IN  IF byLowerName # NoMatch THEN byLowerName
      ELSE IF byName # NoMatch THEN byName
      ELSE IF byCode # NoMatch THEN byCode
      ELSE IF byFriendly # NoMatch THEN byFriendly
      ELSE byCountry

\* resolveCoordinates falling back to [0, 0] instead of null
resolveCoordinates_ZeroFallback(countryCode, cityCode, cityName) ==
  LET byCode ==
        IF Truthy(cityCode) THEN TryKey(JsString(cityCode)) ELSE NoMatch
      byLowerName ==
        IF Truthy(cityName)
          THEN (IF cityName.t # "string" THEN Throw ELSE TryKey(toLowerCase(cityName.s)))
          ELSE NoMatch
      byName ==
        IF Truthy(cityName) THEN TryKey(cityName.s) ELSE NoMatch
      byFriendly ==
        IF Truthy(cityCode) /\ JsString(cityCode) \in DOMAIN cityCodeToCityName
          THEN TryKey(cityCodeToCityName[JsString(cityCode)])
          ELSE NoMatch
      country == getCountryNameFromCode(countryCode)
      byCountry ==
        IF Truthy(country) /\ JsString(country) \in DOMAIN countryCentroids
          THEN countryCentroids[JsString(country)]
          ELSE Arr(<<Num(0), Num(0)>>)
  IN  IF byCode # NoMatch THEN byCode
      ELSE IF byLowerName # NoMatch THEN byLowerName
      ELSE IF byName # NoMatch THEN byName
      ELSE IF byFriendly # NoMatch THEN byFriendly
      ELSE byCountry

\* The value resolveCoordinates returns: an array [lat, lon], null, or Throw
\* when evaluating it raises a TypeError.
resolveCoordinates(countryCode, cityCode, cityName) ==
  LET byCode ==
        IF Truthy(cityCode) THEN TryKey(JsString(cityCode)) ELSE NoMatch
      byLowerName ==
        IF Truthy(cityName)
          THEN (IF cityName.t # "string" THEN Throw ELSE TryKey(toLowerCase(cityName.s)))
          ELSE NoMatch
      byName ==
        IF Truthy(cityName) THEN TryKey(cityName.s) ELSE NoMatch
      byFriendly ==
        IF Truthy(cityCode) /\ JsString(cityCode) \in DOMAIN cityCodeToCityName
          THEN TryKey(cityCodeToCityName[JsString(cityCode)])
          ELSE NoMatch
      country == getCountryNameFromCode(countryCode)
      byCountry ==
        IF Truthy(country) /\ JsString(country) \in DOMAIN countryCentroids
          THEN countryCentroids[JsString(country)]
          ELSE Null
  IN  IF byCode # NoMatch THEN byCode
      ELSE IF byLowerName # NoMatch THEN byLowerName
      ELSE IF byName # NoMatch THEN byName
      ELSE IF byFriendly # NoMatch THEN byFriendly
      ELSE byCountry

---------------------------------------------------------------------------
(* Input universes                                                         *)

\* largest number of entries of a generated city-coordinate table
MaxEntries == 2

s_tia     == <<"t","i","a">>
s_dur     == <<"d","u","r">>
s_Tirana  == <<"T","i","r","a","n","a">>
s_tirana  == <<"t","i","r","a","n","a">>
s_Durres  == <<"D","u","r","r","e","s">>
s_durres  == <<"d","u","r","r","e","s">>
s_GB      == <<"G","B">>
s_AL      == <<"A","L">>
s_SE      == <<"S","E">>
s_Albania == <<"A","l","b","a","n","i","a">>
s_Germany == <<"G","e","r","m","a","n","y">>
s_Unknown == <<"U","n","k","n","o","w","n">>

\* keys a generated city-coordinate table may hold
CoordKeys == {s_tia, s_tirana, s_Tirana, s_durres, s_Durres}

\* a well-formed coordinate, different for every key
CoordOf(k) ==
  CASE k = s_tia    -> Entry(Num(4132795), Num(-1981902))
    [] k = s_tirana -> Entry(Num(4133000), Num(1982000))
    [] k = s_Tirana -> Entry(Num(4132000), Num(1981000))
    [] k = s_durres -> Entry(Num(4131000), Num(1945000))
    [] OTHER        -> Entry(Num(4130000), Num(1944000))

EntryKinds == {"coord", "zero", "latString", "lonMissing", "latInfinity"}

\* the entry of each kind, as JSON.parse yields it:
\*   {"lat": 0, "lon": 0}, {"lat": "NaN", "lon": 12}, {"lat": 12},
\*   {"lat": 1e999, "lon": 12} (a JSON number beyond the double range parses
\*   to Infinity)
EntryOf(k, kind) ==
  CASE kind = "coord"       -> CoordOf(k)
    [] kind = "zero"        -> Entry(Num(0), Num(0))
    [] kind = "latString"   -> Entry(Str(<<"N","a","N">>), Num(12))
    [] kind = "lonMissing"  -> Entry(Num(12), Undefined)
    [] OTHER                -> Entry(Infinity, Num(12))

\* the parsed city-coordinate objects: at most MaxEntries keys, any kinds
CoordTables ==
  UNION { { Obj([k \in S |-> EntryOf(k, kinds[k])]) : kinds \in [S -> EntryKinds] } :
          S \in { T \in SUBSET CoordKeys : Cardinality(T) <= MaxEntries } }

\* the parsed countries.json objects
CountryMaps ==
  { Obj(<<>>),
    Obj(s_AL :> Str(s_Albania)),
    Obj(s_SE :> Str(s_Germany)) }

\* argument triples of resolveCoordinates
ResolveArgs ==
  [ countryCode : {EmptyString, Str(s_GB), Str(s_AL), Str(s_SE)},
    cityCode    : {Undefined, Str(s_tia), Str(s_dur)},
    cityName    : {EmptyString, Str(s_Tirana), Str(s_tirana), Str(s_Durres)} ]

NoFile == [state |-> "absent"]

Paths == {"RELAYS_PATH", "ROOT_RELAYS_PATH", "RAW_API_PATH", "ROOT_RAW_API_PATH",
          "CITY_COORDS_PATH", "ROOT_CITY_COORDS_PATH",
          "COUNTRIES_PATH", "ROOT_COUNTRIES_PATH"}

---------------------------------------------------------------------------
(* SpecResolve: resolveCoordinates applied to every argument triple over   *)
(* every generated table                                                   *)

\* the updater has not been started
UpdaterIdle ==
  /\ argv = Undefined
  /\ relays = Undefined
  /\ cityCoords = Undefined
  /\ citiesToProcess = <<>>
  /\ cityIndex = 0
  /\ cand = 1
  /\ attempt = 1
  /\ result = Undefined
  /\ elapsed = 0
  /\ inFlight = 0
  /\ requests = <<>>

InitResolve ==
  /\ pc = "call"
  /\ fs = [p \in Paths |-> NoFile]
  /\ fs0 = fs
  /\ cityCoordsFromFile \in CoordTables \cup {Null}
  /\ countriesMap \in CountryMaps
  /\ res = Undefined
  /\ apiRelays = Undefined
  /\ sanitized = Undefined
  /\ writes = <<>>
  /\ exitCode = "running"
  /\ args \in ResolveArgs
  /\ ret = Undefined
  /\ UpdaterIdle
  /\ served = Undefined

Resolve ==
  /\ pc = "call"
  /\ pc' = "returned"
  /\ ret' = resolveCoordinates(args.countryCode, args.cityCode, args.cityName)
  /\ UNCHANGED <<fs, fs0, cityCoordsFromFile, countriesMap, res, apiRelays,
                 sanitized, writes, exitCode, args>>
  /\ UNCHANGED <<updaterVars, served>>

NextResolve == Resolve

SpecResolve == InitResolve /\ [][NextResolve]_vars

---------------------------------------------------------------------------
(* Claims about resolveCoordinates (checked under SpecResolve)             *)

\* the keys resolveCoordinates tries, in the order of the resolution chain:
\* city code, lowercased city name, exact city name, friendly name of the code
CandidateKeys(a) ==
  (IF Truthy(a.cityCode) THEN <<JsString(a.cityCode)>> ELSE <<>>)
  \o (IF Truthy(a.cityName) /\ a.cityName.t = "string"
        THEN <<toLowerCase(a.cityName.s), a.cityName.s>> ELSE <<>>)
  \o (IF Truthy(a.cityCode) /\ JsString(a.cityCode) \in DOMAIN cityCodeToCityName
        THEN <<cityCodeToCityName[JsString(a.cityCode)]>> ELSE <<>>)

HasEntry(k) ==
  cityCoordsFromFile.t = "object" /\ k \in DOMAIN cityCoordsFromFile.f

EntryAt(k) == cityCoordsFromFile.f[k]

\* both fields of the entry at k are of type number
NumericEntry(k) ==
  /\ HasEntry(k)
  /\ EntryAt(k).t = "entry"
  /\ EntryAt(k).lat.t = "number"
  /\ EntryAt(k).lon.t = "number"

\* both fields of the entry at k are finite numbers
FiniteEntry(k) ==
  NumericEntry(k) /\ IsFinite(EntryAt(k).lat) /\ IsFinite(EntryAt(k).lon)

\* step 5 and 6: the centroid of the country name of the code, else unresolved
CentroidOrUnresolved(countryCode) ==
  LET name == getCountryNameFromCode(countryCode) IN
  IF name.t = "string" /\ name.s \in DOMAIN countryCentroids
    THEN countryCentroids[name.s] ELSE Null

\* the entry of the first candidate key that Valid accepts, else step 5/6
FirstMatch(Valid(_), a) ==
  LET keys == CandidateKeys(a)
      hits == { i \in 1..Len(keys) : Valid(keys[i]) }
  IN  IF hits = {} THEN CentroidOrUnresolved(a.countryCode)
      ELSE LET first == CHOOSE i \in hits : \A j \in hits : i <= j
           IN  Arr(<<EntryAt(keys[first]).lat, EntryAt(keys[first]).lon>>)

\* C1: whenever resolveCoordinates returns, it returns the coordinates of the
\* first step of the chain code / lowercased name / exact name / friendly
\* name whose entry has a numeric lat and lon, else the centroid of the
\* country name derived from the country code, else unresolved (null); and
\* a numeric entry under the city code is always the result, whatever the
\* city name and the other entries are.
C1_ResolutionOrder ==
  pc = "returned" =>
    /\ (ret # Throw => ret = FirstMatch(NumericEntry, args))
    /\ (Truthy(args.cityCode) /\ NumericEntry(JsString(args.cityCode))
          => ret = Arr(<<EntryAt(JsString(args.cityCode)).lat,
                         EntryAt(JsString(args.cityCode)).lon>>))

\* C1 witness: the table holds a well-formed entry under the city code and a
\* different one under the lowercased city name, and the code entry is returned
C1_Witness ==
  /\ pc = "returned"
  /\ args.cityCode = Str(s_tia)
  /\ args.cityName = Str(s_Tirana)
  /\ FiniteEntry(s_tia)
  /\ FiniteEntry(s_tirana)
  /\ EntryAt(s_tia) # EntryAt(s_tirana)
  /\ ret = Arr(<<Num(4132795), Num(-1981902)>>)

\* C2 (as claimed): an entry matches only if its lat and lon are finite
\* numbers; any other entry is skipped and resolution continues, so the
\* result is that of the first step whose entry has a finite lat and lon.
C2_OnlyFiniteEntriesMatch ==
  pc = "returned" /\ ret # Throw => ret = FirstMatch(FiniteEntry, args)

---------------------------------------------------------------------------
(* Record normalization                                                    *)

s_Mullvad  == <<"M","u","l","l","v","a","d">>
s_Rented   == <<"R","e","n","t","e","d">>
s_WireGuard == <<"W","i","r","e","G","u","a","r","d">>
s_OpenVPN  == <<"O","p","e","n","V","P","N">>
s_XX       == <<"X","X">>

RelayFields == {"hostname", "fqdn", "country_code", "country", "country_name",
                "city_code", "city_name", "type", "owned", "provider", "active"}

\* a raw API relay object; an absent property is Undefined
EmptyRelay == [f \in RelayFields |-> Undefined] @@ ("t" :> "relay")

\* apiRelay.name, for apiRelay not null: a property of a relay object, and
\* undefined on a primitive
Prop(apiRelay, name) ==
  IF apiRelay.t = "relay" THEN apiRelay[name] ELSE Undefined

\* /mullvad/i.test(x): x converted to a string contains "mullvad" in any case
TestMullvad(x) ==
  LET s == JsString(x)
      n == Len(s_Mullvad)
  IN  \E i \in 1..(Len(s) - n + 1) :
        toLowerCase(SubSeq(s, i, i + n - 1)) = toLowerCase(s_Mullvad)

\* The value mapApiRelayToCanonical returns: the canonical record, or Throw
\* when evaluating it raises a TypeError.
mapApiRelayToCanonical(apiRelay) ==
  IF apiRelay.t \in {"null", "undefined"} THEN Throw
  ELSE
  LET hostname  == Or(Or(Prop(apiRelay, "hostname"), Prop(apiRelay, "fqdn")), EmptyString)
      rawCode   == Or(Or(Prop(apiRelay, "country_code"), Prop(apiRelay, "country")), EmptyString)
  IN
  IF rawCode.t # "string" THEN Throw  \* .toUpperCase is not a function
  ELSE
  LET countryCode == Str(toUpperCase(rawCode.s))
      country   == Or(Or(Prop(apiRelay, "country_name"), getCountryNameFromCode(countryCode)),
                      Str(s_Unknown))
      city_code == Prop(apiRelay, "city_code")
      friendly  == IF JsString(city_code) \in DOMAIN cityCodeToCityName
                     THEN Str(cityCodeToCityName[JsString(city_code)]) ELSE Undefined
      \* apiRelay.city_code.toUpperCase() is reached and city_code is no string
      upperThrows == /\ ~Truthy(Prop(apiRelay, "city_name"))
                     /\ Truthy(city_code)
                     /\ ~Truthy(friendly)
                     /\ city_code.t # "string"
  IN
  IF upperThrows THEN Throw
  ELSE
  LET cityName  == Or(Prop(apiRelay, "city_name"),
                      IF Truthy(city_code)
                        THEN Or(friendly, Str(toUpperCase(JsString(city_code))))
                        ELSE EmptyString)
      tag       == toLowerCase(JsString(Or(Prop(apiRelay, "type"), EmptyString)))
      protocols == (IF tag \in {<<"w","i","r","e","g","u","a","r","d">>, <<"w","g">>}
                      THEN <<Str(s_WireGuard)>> ELSE <<>>)
                   \o (IF tag \in {<<"o","p","e","n","v","p","n">>, <<"o","v","p","n">>}
                         THEN <<Str(s_OpenVPN)>> ELSE <<>>)
      owned     == Prop(apiRelay, "owned")
      provider  == Prop(apiRelay, "provider")
      ownership == IF TypeOf(owned) = "boolean"
                     THEN (IF owned.b THEN Str(s_Mullvad) ELSE Str(s_Rented))
                     ELSE IF Truthy(provider) /\ TestMullvad(provider)
                       THEN Str(s_Mullvad) ELSE Str(s_Rented)
      coords    == resolveCoordinates(countryCode, city_code, cityName)
      active    == Prop(apiRelay, "active")
  IN
  IF coords = Throw THEN Throw
  ELSE
    [ t           |-> "canonical",
      id          |-> hostname,
      country     |-> country,
      countryCode |-> Or(countryCode, Str(s_XX)),
      city        |-> Or(cityName, EmptyString),
      lat         |-> IF Truthy(coords) THEN ToNumber(coords.a[1]) ELSE Null,
      lon         |-> IF Truthy(coords) THEN ToNumber(coords.a[2]) ELSE Null,
      ownership   |-> ownership,
      protocols   |-> Arr(protocols),
      active      |-> IF TypeOf(active) = "boolean" THEN active ELSE Bool(TRUE) ]

---------------------------------------------------------------------------
(* SpecNormalize: mapApiRelayToCanonical applied to raw records            *)

\* largest number of properties present in a generated raw relay
MaxFields == 3

FieldOrder == <<"hostname", "fqdn", "country_code", "country", "country_name",
                "city_code", "city_name", "type", "owned", "provider", "active">>

\* the values a property of a generated raw relay takes when present: values
\* of the expected type and values of another type
FieldValues(f) ==
  CASE f = "hostname"     -> {Str(<<"h","1">>), Num(7)}
    [] f = "fqdn"         -> {Str(<<"f","1">>)}
    [] f = "country_code" -> {Str(<<"g","b">>), Str(<<"a","l">>), Num(5)}
    [] f = "country"      -> {Str(<<"s","e">>)}
    [] f = "country_name" -> {Str(s_Albania), Str(s_Germany), Num(5)}
    [] f = "city_code"    -> {Str(s_tia), Str(s_dur), Num(5)}
    [] f = "city_name"    -> {Str(s_Tirana), Str(s_Durres), Num(5)}
    [] f = "type"         -> {Str(s_WireGuard), Str(<<"w","g">>), Str(s_OpenVPN),
                              Str(<<"o","v","p","n">>), Str(<<"b","r","i","d","g","e">>)}
    [] f = "owned"        -> {Bool(TRUE), Bool(FALSE), Str(<<"y","e","s">>)}
    [] f = "provider"     -> {Str(<<"M","U","L","L","V","A","D"," ","A","B">>),
                              Str(<<"T","h","i","r","d","P","a","r","t","y","C","o">>)}
    [] OTHER              -> {Bool(TRUE), Bool(FALSE), Str(<<"y","e","s">>)}

\* the raw relays over the given properties with at most n of them present
RECURSIVE RelaysOver(_, _)
RelaysOver(fields, n) ==
  IF fields = <<>> THEN {EmptyRelay}
  ELSE RelaysOver(Tail(fields), n)
       \cup (IF n = 0 THEN {}
             ELSE { [r EXCEPT ![Head(fields)] = v] :
                      r \in RelaysOver(Tail(fields), n - 1),
                      v \in FieldValues(Head(fields)) })

\* elements of the fetched array: relay objects, null, a number
RawRelays == RelaysOver(FieldOrder, MaxFields) \cup {Null, Num(5)}

\* city-coordinate tables of the normalization runs
NormalizeTables ==
  { Null,
    Obj(<<>>),
    Obj(s_tia :> CoordOf(s_tia)),
    Obj(s_tirana :> EntryOf(s_tirana, "zero")),
    Obj(s_tia :> EntryOf(s_tia, "latInfinity")) }

InitNormalize ==
  /\ pc = "call"
  /\ fs = [p \in Paths |-> NoFile]
  /\ fs0 = fs
  /\ cityCoordsFromFile \in NormalizeTables
  /\ countriesMap \in CountryMaps \cup {Obj(s_AL :> Num(5))}
  /\ res = Undefined
  /\ apiRelays = Undefined
  /\ sanitized = Undefined
  /\ writes = <<>>
  /\ exitCode = "running"
  /\ args \in RawRelays
  /\ ret = Undefined
  /\ UpdaterIdle
  /\ served = Undefined

Normalize ==
  /\ pc = "call"
  /\ pc' = "returned"
  /\ ret' = mapApiRelayToCanonical(args)
  /\ UNCHANGED <<fs, fs0, cityCoordsFromFile, countriesMap, res, apiRelays,
                 sanitized, writes, exitCode, args>>
  /\ UNCHANGED <<updaterVars, served>>

NextNormalize == Normalize

SpecNormalize == InitNormalize /\ [][NextNormalize]_vars

\* the nine fields of a canonical record hold values of their types
WellTyped(r) ==
  /\ r.t = "canonical"
  /\ r.id.t = "string"
  /\ r.country.t = "string"
  /\ r.countryCode.t = "string"
  /\ r.city.t = "string"
  /\ (IsFinite(r.lat) \/ r.lat = Null)
  /\ (IsFinite(r.lon) \/ r.lon = Null)
  /\ r.ownership \in {Str(s_Mullvad), Str(s_Rented)}
  /\ r.protocols.t = "array"
  /\ \A i \in 1..Len(r.protocols.a) : r.protocols.a[i] \in {Str(s_OpenVPN), Str(s_WireGuard)}
  /\ r.active.t = "boolean"

\* the loaded tables have the documented shape: key -> {lat, lon} with finite
\* numbers, and country code -> name
WellFormedTables ==
  /\ cityCoordsFromFile.t = "object"
  /\ \A k \in DOMAIN cityCoordsFromFile.f : FiniteEntry(k)
  /\ countriesMap.t = "object"
  /\ \A c \in DOMAIN countriesMap.f : countriesMap.f[c].t = "string"

\* C5 (as claimed): for every raw record, whatever properties are absent or
\* of an unexpected type, mapApiRelayToCanonical returns a record (it never
\* fails) whose nine fields all hold a value of the field's type or fallback.
C5_AlwaysWellTypedRecord ==
  pc = "returned" /\ args.t = "relay" /\ WellFormedTables
    => ret # Throw /\ WellTyped(ret)

---------------------------------------------------------------------------
(* The ingest() run                                                        *)

\* a file (or a response body): absent, text that JSON.parse rejects, or the
\* JSON text of value v
Garbage == [state |-> "garbage"]
Json(v) == [state |-> "json", v |-> v]

\* JSON.parse(await readFile(path, 'utf8')): the value, or Throw
ReadJson(path) ==
  IF fs[path].state = "json" THEN fs[path].v ELSE Throw

\* largest number of records of a fetched collection
MaxRelays == 2

R_tia ==
  [EmptyRelay EXCEPT !["hostname"] = Str(<<"h","1">>),
                     !["country_code"] = Str(<<"a","l">>),
                     !["city_code"] = Str(s_tia),
                     !["city_name"] = Str(s_Tirana),
                     !["type"] = Str(<<"w","i","r","e","g","u","a","r","d">>),
                     !["owned"] = Bool(FALSE)]

R_gb ==
  [EmptyRelay EXCEPT !["hostname"] = Str(<<"h","2">>),
                     !["country_code"] = Str(<<"g","b">>),
                     !["type"] = Str(<<"w","i","r","e","g","u","a","r","d">>),
                     !["owned"] = Bool(TRUE)]

R_se ==
  [EmptyRelay EXCEPT !["hostname"] = Str(<<"h","3">>),
                     !["country_code"] = Str(<<"s","e">>),
                     !["type"] = Str(<<"b","r","i","d","g","e">>),
                     !["provider"] = Str(<<"T","h","i","r","d","P","a","r","t","y","C","o">>)]

\* a record whose city_name is a number
R_bad ==
  [EmptyRelay EXCEPT !["hostname"] = Str(<<"h","4">>),
                     !["country_code"] = Str(<<"g","b">>),
                     !["city_name"] = Num(5)]

IngestRecords == {R_tia, R_gb, R_se, R_bad}

\* what the upstream may answer: no answer (network error), a non-success
\* status, or a success status with a body
Responses ==
  { [kind |-> "network"],
    [kind |-> "http", ok |-> FALSE, body |-> Garbage],
    [kind |-> "http", ok |-> TRUE, body |-> Garbage],
    [kind |-> "http", ok |-> TRUE, body |-> Json(Obj(<<>>))] }
  \cup { [kind |-> "http", ok |-> TRUE, body |-> Json(Arr(a))] :
           a \in UNION { [1..n -> IngestRecords] : n \in 0..MaxRelays } }

\* The value fetchRelaysFromApi resolves with, or Throw when it rejects
fetchRelaysFromApi(response) ==
  IF response.kind = "network" THEN Throw            \* fetch() rejects
  ELSE IF ~response.ok THEN Throw                    \* !res.ok
  ELSE IF response.body.state # "json" THEN Throw    \* res.json() rejects
  ELSE IF response.body.v.t # "array" THEN Throw     \* !Array.isArray(json)
  ELSE response.body.v

\* content of the output files left by an earlier run
OldRelays == Arr(<<[ t |-> "canonical", id |-> Str(<<"o","l","d">>),
                     country |-> Str(s_Unknown), countryCode |-> Str(s_XX),
                     city |-> EmptyString, lat |-> Null, lon |-> Null,
                     ownership |-> Str(s_Mullvad), protocols |-> Arr(<<>>),
                     active |-> Bool(TRUE) ]>>)

OldRaw == Arr(<<[EmptyRelay EXCEPT !["hostname"] = Str(<<"o","l","d">>)]>>)

CityCoordsFiles ==
  { NoFile, Garbage, Json(Null),
    Json(Obj(s_tia :> CoordOf(s_tia))),
    Json(Obj(s_tia :> EntryOf(s_tia, "latInfinity"))) }

\* the project-level copies data/city-coordinates.json and
\* data/countries.json, when they exist
RootCityCoordsFile == Json(Obj(s_tirana :> EntryOf(s_tirana, "zero")))

CountriesFiles ==
  { NoFile, Garbage, Json(Null), Json(Obj(s_AL :> Str(s_Albania))) }

RootCountriesFile == Json(Obj(s_SE :> Str(s_Germany)))

\* the disks a run may start on: any state of the two tools/data tables,
\* with or without the project-level copies, before or after an earlier run
InitialDisks ==
  { [p \in Paths |->
       CASE p = "CITY_COORDS_PATH"      -> c
         [] p = "ROOT_CITY_COORDS_PATH" -> IF rootCopies THEN RootCityCoordsFile ELSE NoFile
         [] p = "COUNTRIES_PATH"        -> k
         [] p = "ROOT_COUNTRIES_PATH"   -> IF rootCopies THEN RootCountriesFile ELSE NoFile
         [] p \in {"RELAYS_PATH", "ROOT_RELAYS_PATH"} ->
              IF firstRun THEN NoFile ELSE Json(OldRelays)
         [] OTHER -> IF firstRun THEN NoFile ELSE Json(OldRaw)] :
     c \in CityCoordsFiles, k \in CountriesFiles,
     rootCopies \in BOOLEAN, firstRun \in BOOLEAN }

Init ==
  /\ pc = "ensureDataDir"
  /\ fs \in InitialDisks
  /\ fs0 = fs
  /\ cityCoordsFromFile = Obj(<<>>)
  /\ countriesMap = Obj(<<>>)
  /\ res = Undefined
  /\ apiRelays = Undefined
  /\ sanitized = Undefined
  /\ writes = <<>>
  /\ exitCode = "running"
  /\ args = Undefined
  /\ ret = Undefined
  /\ UpdaterIdle
  /\ served = Undefined

\* mkdir(DATA_DIR, {recursive: true}), errors ignored: no file changes
ensureDataDir ==
  /\ pc = "ensureDataDir"
  /\ pc' = "loadCityCoords"
  /\ UNCHANGED <<fs, fs0, cityCoordsFromFile, countriesMap, res, apiRelays,
                 sanitized, writes, exitCode, args, ret>>
  /\ UNCHANGED <<updaterVars, served>>

loadCityCoords ==
  /\ pc = "loadCityCoords"
  /\ cityCoordsFromFile' =
       IF ReadJson("CITY_COORDS_PATH") # Throw THEN ReadJson("CITY_COORDS_PATH")
       ELSE IF ReadJson("ROOT_CITY_COORDS_PATH") # Throw
         THEN ReadJson("ROOT_CITY_COORDS_PATH")
       ELSE Obj(<<>>)
  /\ pc' = "loadCountries"
  /\ UNCHANGED <<fs, fs0, countriesMap, res, apiRelays, sanitized, writes,
                 exitCode, args, ret>>
  /\ UNCHANGED <<updaterVars, served>>

\* if (parsed && typeof parsed === 'object') countriesMap = parsed; else {}
ObjectOrEmpty(parsed) ==
  IF Truthy(parsed) /\ TypeOf(parsed) = "object" THEN parsed ELSE Obj(<<>>)

loadCountries ==
  /\ pc = "loadCountries"
  /\ countriesMap' =
       IF ReadJson("COUNTRIES_PATH") # Throw
         THEN ObjectOrEmpty(ReadJson("COUNTRIES_PATH"))
       ELSE IF ReadJson("ROOT_COUNTRIES_PATH") # Throw
         THEN ObjectOrEmpty(ReadJson("ROOT_COUNTRIES_PATH"))
       ELSE Obj(<<>>)
  /\ pc' = "fetch"
  /\ UNCHANGED <<fs, fs0, cityCoordsFromFile, res, apiRelays, sanitized,
                 writes, exitCode, args, ret>>
  /\ UNCHANGED <<updaterVars, served>>

\* fetchRelaysFromApi() resolved: ingest() goes on with the collection
Fetched ==
  /\ pc = "fetch"
  /\ \E response \in Responses :
       /\ fetchRelaysFromApi(response) # Throw
       /\ res' = response
       /\ apiRelays' = fetchRelaysFromApi(response)
  /\ pc' = "writeRaw"
  /\ UNCHANGED <<fs, fs0, cityCoordsFromFile, countriesMap, sanitized, writes,
                 exitCode, args, ret>>
  /\ UNCHANGED <<updaterVars, served>>

\* FetchFailed going on with an empty collection instead of exiting
FetchFailed_ContinuesEmpty ==
  /\ pc = "fetch"
  /\ \E response \in Responses :
       /\ fetchRelaysFromApi(response) = Throw
       /\ res' = response
  /\ apiRelays' = Arr(<<>>)
  /\ pc' = "writeRaw"
  /\ UNCHANGED <<fs, fs0, cityCoordsFromFile, countriesMap, sanitized, writes,
                 exitCode, args, ret>>
  /\ UNCHANGED <<updaterVars, served>>

\* fetchRelaysFromApi() rejected: the catch block calls process.exit(1)
FetchFailed ==
  /\ pc = "fetch"
  /\ \E response \in Responses :
       /\ fetchRelaysFromApi(response) = Throw
       /\ res' = response
  /\ pc' = "exited"
  /\ exitCode' = 1
  /\ UNCHANGED <<fs, fs0, cityCoordsFromFile, countriesMap, apiRelays,
                 sanitized, writes, args, ret>>
  /\ UNCHANGED <<updaterVars, served>>

WriteOutcomes == {"ok", "notOpened", "partial"}

\* await writeFile(path, JSON.stringify(value, null, 2)) inside try/catch:
\* the file holds the text on success, is untouched when it cannot be
\* opened, and holds a truncated text when the write fails midway; the
\* error is logged and the run goes on at `next`.
WriteFile(at, path, value, next) ==
  /\ pc = at
  /\ \E outcome \in WriteOutcomes :
       /\ fs' = CASE outcome = "ok"        -> [fs EXCEPT ![path] = Json(value)]
                  [] outcome = "notOpened" -> fs
                  [] OTHER                 -> [fs EXCEPT ![path] = Garbage]
       /\ writes' = Append(writes, [path |-> path, outcome |-> outcome])
  /\ pc' = next

writeRaw ==
  /\ WriteFile("writeRaw", "RAW_API_PATH", apiRelays, "writeRootRaw")
  /\ UNCHANGED <<fs0, cityCoordsFromFile, countriesMap, res, apiRelays,
                 sanitized, exitCode, args, ret>>
  /\ UNCHANGED <<updaterVars, served>>

writeRootRaw ==
  /\ WriteFile("writeRootRaw", "ROOT_RAW_API_PATH", apiRelays, "map")
  /\ UNCHANGED <<fs0, cityCoordsFromFile, countriesMap, res, apiRelays,
                 sanitized, exitCode, args, ret>>
  /\ UNCHANGED <<updaterVars, served>>

\* apiRelays.map(mapApiRelayToCanonical), element by element
Mapped == [i \in 1..Len(apiRelays.a) |-> mapApiRelayToCanonical(apiRelays.a[i])]

\* .filter(Boolean)
FilterBoolean(s) == SelectSeq(s, Truthy)

\* the map completed: sanitized is set
mapRelays ==
  /\ pc = "map"
  /\ \A i \in 1..Len(apiRelays.a) : Mapped[i] # Throw
  /\ sanitized' = Arr(FilterBoolean(Mapped))
  /\ pc' = "writeRelays"
  /\ UNCHANGED <<fs, fs0, cityCoordsFromFile, countriesMap, res, apiRelays,
                 writes, exitCode, args, ret>>
  /\ UNCHANGED <<updaterVars, served>>

\* mapApiRelayToCanonical threw on some element: ingest() rejects and
\* ingest().catch calls process.exit(1)
mapThrows ==
  /\ pc = "map"
  /\ \E i \in 1..Len(apiRelays.a) : Mapped[i] = Throw
  /\ pc' = "exited"
  /\ exitCode' = 1
  /\ UNCHANGED <<fs, fs0, cityCoordsFromFile, countriesMap, res, apiRelays,
                 sanitized, writes, args, ret>>
  /\ UNCHANGED <<updaterVars, served>>

\* one element of `final`
FinalRecord(r) ==
  [ t           |-> "canonical",
    id          |-> r.id,
    country     |-> Or(r.country, getCountryNameFromCode(r.countryCode)),
    countryCode |-> Or(r.countryCode, Str(s_XX)),
    city        |-> Or(r.city, EmptyString),
    lat         |-> IF TypeOf(r.lat) = "number" THEN r.lat ELSE Null,
    lon         |-> IF TypeOf(r.lon) = "number" THEN r.lon ELSE Null,
    ownership   |-> Or(r.ownership, Str(s_Mullvad)),
    protocols   |-> IF r.protocols.t = "array" THEN r.protocols ELSE Arr(<<>>),
    active      |-> IF TypeOf(r.active) = "boolean" THEN r.active ELSE Bool(TRUE) ]

\* what JSON.stringify(final, null, 2) holds once parsed back, for `final`
\* computed from the records recs: a non-finite number is written as null
FinalJsonOf(recs) ==
  Arr([i \in 1..Len(recs) |->
         LET r == FinalRecord(recs[i]) IN
         [r EXCEPT !.id = JsonNumber(@), !.country = JsonNumber(@),
                   !.lat = JsonNumber(@), !.lon = JsonNumber(@)]])

\* FinalJson merging the new records into the previous content of the
\* canonical output instead of replacing it
FinalJson_MergesPrevious ==
  IF fs["RELAYS_PATH"].state = "json" /\ fs["RELAYS_PATH"].v.t = "array"
    THEN Arr(fs["RELAYS_PATH"].v.a \o FinalJsonOf(sanitized.a).a)
    ELSE FinalJsonOf(sanitized.a)

FinalJson == FinalJsonOf(sanitized.a)

writeRelays ==
  /\ WriteFile("writeRelays", "RELAYS_PATH", FinalJson, "writeRootRelays")
  /\ UNCHANGED <<fs0, cityCoordsFromFile, countriesMap, res, apiRelays,
                 sanitized, exitCode, args, ret>>
  /\ UNCHANGED <<updaterVars, served>>

\* the last write; ingest() then resolves and the process ends with code 0
writeRootRelays ==
  /\ WriteFile("writeRootRelays", "ROOT_RELAYS_PATH", FinalJson, "exited")
  /\ exitCode' = 0
  /\ UNCHANGED <<fs0, cityCoordsFromFile, countriesMap, res, apiRelays,
                 sanitized, args, ret>>
  /\ UNCHANGED <<updaterVars, served>>

Next ==
  \/ ensureDataDir
  \/ loadCityCoords
  \/ loadCountries
  \/ Fetched
  \/ FetchFailed
  \/ writeRaw
  \/ writeRootRaw
  \/ mapRelays
  \/ mapThrows
  \/ writeRelays
  \/ writeRootRelays

Spec == Init /\ [][Next]_vars

---------------------------------------------------------------------------
(* Claims about the ingest() run (checked under Spec)                      *)

CanonicalPaths == {"RELAYS_PATH", "ROOT_RELAYS_PATH"}

OutputPaths == CanonicalPaths \cup {"RAW_API_PATH", "ROOT_RAW_API_PATH"}

\* the upstream answered and fetchRelaysFromApi resolved / rejected
FetchSucceeded == res # Undefined /\ fetchRelaysFromApi(res) # Throw

FetchRejected == res # Undefined /\ fetchRelaysFromApi(res) = Throw

\* this run called writeFile on path / and the call succeeded
Attempted(path) == \E i \in 1..Len(writes) : writes[i].path = path

WrittenOk(path) ==
  \E i \in 1..Len(writes) : writes[i] = [path |-> path, outcome |-> "ok"]

\* the run is over
Ended == pc = "exited"

\* the arguments mapApiRelayToCanonical passes to resolveCoordinates for a
\* raw relay that it normalizes without throwing
ResolveArgsOf(apiRelay) ==
  LET city_code == Prop(apiRelay, "city_code") IN
  [ countryCode |->
      Str(toUpperCase(Or(Or(Prop(apiRelay, "country_code"), Prop(apiRelay, "country")),
                         EmptyString).s)),
    cityCode |-> city_code,
    cityName |->
      Or(Prop(apiRelay, "city_name"),
         IF ~Truthy(city_code) THEN EmptyString
         ELSE IF JsString(city_code) \in DOMAIN cityCodeToCityName
           THEN Str(cityCodeToCityName[JsString(city_code)])
         ELSE Str(toUpperCase(JsString(city_code)))) ]

C4_LatLonPaired ==
  \A p \in CanonicalPaths :
    WrittenOk(p) =>
      \A i \in 1..Len(fs[p].v.a) :
        LET out == fs[p].v.a[i] IN
        \/ IsFinite(out.lat) /\ IsFinite(out.lon)
        \/ out.lat = Null /\ out.lon = Null

\* C6: once the fetch has failed (network error, non-success status, body
\* that is no JSON array) the run has ended with exit code 1 and has written
\* nothing: no writeFile call was made and the two canonical output files and
\* the two raw-cache files are as they were when the run started.
C6_FetchFailureWritesNothing ==
  FetchRejected =>
    /\ Ended
    /\ exitCode = 1
    /\ writes = <<>>
    /\ \A p \in OutputPaths : fs[p] = fs0[p]

\* C6 witness: the upstream answered a JSON object, not an array, to a run
\* started on the output of an earlier run; the run has ended
C6_Witness ==
  /\ Ended
  /\ res = [kind |-> "http", ok |-> TRUE, body |-> Json(Obj(<<>>))]
  /\ fs0["ROOT_RELAYS_PATH"] = Json(OldRelays)
  /\ fs["ROOT_RELAYS_PATH"] = Json(OldRelays)

\* C7 (as claimed): after a successful fetch, when normalizing some record
\* of the collection fails and another does not (the lookup tables being
\* well formed), the run still attempts both
\* canonical writes, and a canonical file it writes holds the normalized form
\* of exactly the records that did not fail.
C7_FailingRecordSkipped ==
  (Ended /\ FetchSucceeded /\ WellFormedTables
         /\ \E i, j \in 1..Len(apiRelays.a) : Mapped[i] = Throw /\ Mapped[j] # Throw)
    => /\ \A p \in CanonicalPaths : Attempted(p)
       /\ \A p \in CanonicalPaths :
            WrittenOk(p) =>
              fs[p].v = FinalJsonOf(SelectSeq(Mapped, LAMBDA r : r # Throw))

\* C8 (as claimed): after a successful fetch the run calls writeFile exactly
\* once on each of the four paths, in the order raw cache (tools), raw cache
\* (root), canonical output (tools), canonical output (root), whatever the
\* outcome of each call.
C8_FourWritesInOrder ==
  Ended /\ FetchSucceeded
    => [i \in 1..Len(writes) |-> writes[i].path]
         = <<"RAW_API_PATH", "ROOT_RAW_API_PATH", "RELAYS_PATH", "ROOT_RELAYS_PATH">>

\* C9 (as claimed): the run ends with exit code 0 if and only if the fetch
\* succeeded and the canonical output was written to at least one
\* destination.
C9_SuccessIffOutputWritten ==
  Ended =>
    (exitCode = 0 <=> (FetchSucceeded /\ \E p \in CanonicalPaths : WrittenOk(p)))

\* every property present in the raw relay has the type the API documents
WellTypedRaw(r) ==
  /\ r.t = "relay"
  /\ \A f \in RelayFields \ {"owned", "active"} : r[f].t \in {"undefined", "string"}
  /\ \A f \in {"owned", "active"} : r[f].t \in {"undefined", "boolean"}

\* C10 (as claimed): whatever the state of the lookup-table files, once
\* loaded each in-memory table is a mapping (possibly empty), and the run
\* normalizes the fetched records without a failure caused by a table: a run
\* that fetched only well-typed records ends with exit code 0.
C10_TablesLoadAsMappings ==
  /\ pc \notin {"ensureDataDir", "loadCityCoords"} => cityCoordsFromFile.t = "object"
  /\ pc \notin {"ensureDataDir", "loadCityCoords", "loadCountries"}
       => countriesMap.t \in {"object", "array"}
  /\ (Ended /\ FetchSucceeded /\ \A i \in 1..Len(apiRelays.a) : WellTypedRaw(apiRelays.a[i]))
       => exitCode = 0

---------------------------------------------------------------------------
(* Field derivations of the canonical record                               *)

\* the record was returned for a raw relay object
Returned == pc = "returned" /\ args.t = "relay" /\ ret # Throw

\* C11 (as claimed): ownership is Mullvad for owned === true and Rented for
\* owned === false; with owned not a boolean it is Mullvad when the provider
\* contains "mullvad" in any case, Rented when a provider is given that does
\* not, and Mullvad when the record has neither an owned boolean nor a
\* provider.
C11_OwnershipDefaultsToMullvad ==
  Returned =>
    LET owned    == args["owned"]
        provider == args["provider"]
    IN  ret.ownership =
          IF owned = Bool(TRUE) THEN Str(s_Mullvad)
          ELSE IF owned = Bool(FALSE) THEN Str(s_Rented)
          ELSE IF provider = Undefined THEN Str(s_Mullvad)
          ELSE IF TestMullvad(provider) THEN Str(s_Mullvad)
          ELSE Str(s_Rented)

\* C12 (as claimed): countryCode is the uppercased country code of the
\* source record (country_code, or country in its place), or "XX" when the
\* record has none; country is the supplied country_name, else the name the
\* loaded table holds for the code, else the built-in table's name, else
\* "Unknown".
C12_CountryCodeAndName ==
  Returned =>
    LET code  == IF args["country_code"] # Undefined
                   THEN args["country_code"] ELSE args["country"]
        upper == toUpperCase(code.s)
        name  == args["country_name"]
    IN  /\ ret.countryCode = IF code = Undefined THEN Str(s_XX) ELSE Str(upper)
        /\ ret.country =
             IF name # Undefined THEN name
             ELSE IF code # Undefined /\ upper \in DOMAIN countriesMap.f
               THEN countriesMap.f[upper]
             ELSE IF code # Undefined /\ upper \in DOMAIN countryCodeToName
               THEN Str(countryCodeToName[upper])
             ELSE Str(s_Unknown)

\* a record whose code is in neither table came out as "Unknown" with its
\* code uppercased
C12_Witness ==
  /\ Returned
  /\ args["country_code"] = Str(<<"a","l">>)
  /\ args["country_name"] = Undefined
  /\ countriesMap = Obj(<<>>)
  /\ ret.country = Str(s_Unknown)
  /\ ret.countryCode = Str(s_AL)

\* the string s equals the lowercase word w when case is ignored
EqualsIgnoringCase(s, w) ==
  /\ Len(s) = Len(w)
  /\ \A i \in 1..Len(s) : toLowerCaseChar(s[i]) = w[i]

---------------------------------------------------------------------------
(* Determinism of a run                                                    *)

TablePaths == {"CITY_COORDS_PATH", "ROOT_CITY_COORDS_PATH",
               "COUNTRIES_PATH", "ROOT_COUNTRIES_PATH"}

\* the tables a run loads from the lookup-table files of disk
CityCoordsOn(disk) ==
  IF disk["CITY_COORDS_PATH"].state = "json" THEN disk["CITY_COORDS_PATH"].v
  ELSE IF disk["ROOT_CITY_COORDS_PATH"].state = "json"
    THEN disk["ROOT_CITY_COORDS_PATH"].v
  ELSE Obj(<<>>)

CountriesOn(disk) ==
  IF disk["COUNTRIES_PATH"].state = "json"
    THEN ObjectOrEmpty(disk["COUNTRIES_PATH"].v)
  ELSE IF disk["ROOT_COUNTRIES_PATH"].state = "json"
    THEN ObjectOrEmpty(disk["ROOT_COUNTRIES_PATH"].v)
  ELSE Obj(<<>>)

\* the records of the upstream collection, normalized one by one
NormalizedOf(response) ==
  LET a == fetchRelaysFromApi(response).a
  IN  [i \in 1..Len(a) |-> mapApiRelayToCanonical(a[i])]

\* the canonical collection for an upstream response, given the loaded tables
CanonicalOf(response) == FinalJsonOf(FilterBoolean(NormalizedOf(response)))

\* C14: what a run writes as canonical output is a function of the upstream
\* collection and of the lookup-table files alone. The run leaves the
\* lookup-table files as they were, the tables it works with are those the
\* files determine, every canonical file it writes holds exactly the
\* collection computed from the upstream response and these tables, and
\* whether it gets to write depends on the response and the tables only;
\* so two runs with the same upstream collection and the same table files
\* write the same records, with the same values, in the same order,
\* whatever the output files held before and whichever run came earlier.
C14_OutputDeterminedByInputs ==
  /\ \A p \in TablePaths : fs[p] = fs0[p]
  /\ pc \notin {"ensureDataDir", "loadCityCoords"}
       => cityCoordsFromFile = CityCoordsOn(fs0)
  /\ pc \notin {"ensureDataDir", "loadCityCoords", "loadCountries"}
       => countriesMap = CountriesOn(fs0)
  /\ FetchSucceeded /\ pc \in {"writeRootRelays", "exited"}
       => LET normalized == NormalizedOf(res)
              canonical  == Json(FinalJsonOf(FilterBoolean(normalized)))
          IN  /\ \A p \in CanonicalPaths : WrittenOk(p) => fs[p] = canonical
              /\ Ended =>
                   ((\A p \in CanonicalPaths : Attempted(p))
                      <=> (\A k \in 1..Len(normalized) : normalized[k] # Throw))
  /\ pc \notin {"writeRootRelays", "exited"}
       => \A p \in CanonicalPaths : ~WrittenOk(p)

\* a run over an earlier run's output replaced both canonical files by the
\* collection computed from its own inputs
C14_Witness ==
  /\ Ended
  /\ \A p \in CanonicalPaths :
       fs0[p] = Json(OldRelays) /\ WrittenOk(p) /\ fs[p] = Json(CanonicalOf(res))
  /\ Len(CanonicalOf(res).a) = MaxRelays

\* C15 (as claimed): a run never replaces an existing canonical file by an
\* empty collection: when the upstream collection is empty the run exits
\* with code 1 and leaves the canonical output files as they were.
C15_EmptyUpstreamKeepsOutput ==
  /\ \A p \in CanonicalPaths :
       fs0[p] = Json(OldRelays) => fs[p] # Json(Arr(<<>>))
  /\ Ended /\ FetchSucceeded /\ apiRelays = Arr(<<>>)
       => exitCode = 1 /\ \A p \in CanonicalPaths : fs[p] = fs0[p]

---------------------------------------------------------------------------
(* The lookup-table updater (tools/update-city-coords.js): pure functions  *)

\* minimum delay between geocoding requests, in ms
WAIT_MS == 3000

\* the backoff before the retry of a candidate, in ms
RetryBackoffMs == 1000

\* the characters of the strings of the model, in the order of their UTF-16
\* code units
CodeUnitOrder == <<" ", ",">> \o Digits \o UpperAlpha \o LowerAlpha

CodeUnit(c) == CHOOSE k \in 1..Len(CodeUnitOrder) : CodeUnitOrder[k] = c

\* a < b as Array.prototype.sort() compares strings by default
RECURSIVE StringLess(_, _)
StringLess(a, b) ==
  IF b = <<>> THEN FALSE
  ELSE IF a = <<>> THEN TRUE
  ELSE IF Head(a) # Head(b) THEN CodeUnit(Head(a)) < CodeUnit(Head(b))
  ELSE StringLess(Tail(a), Tail(b))

\* [...set].sort() for a set of strings
RECURSIVE Sort(_)
Sort(S) ==
  IF S = {} THEN <<>>
  ELSE LET m == CHOOSE x \in S : \A y \in S \ {x} : StringLess(x, y)
       IN  <<m>> \o Sort(S \ {m})

\* F applied to the value of x: x is evaluated once and F uses that value,
\* as a `const` of the source holds the value of its initializer
Bind(F(_), x) == CHOOSE y \in { F(v) : v \in {x} } : TRUE

\* String.prototype.trim (the only white space of the model is the blank)
RECURSIVE TrimStart(_)
TrimStart(s) ==
  IF s # <<>> /\ Head(s) = " " THEN TrimStart(Tail(s)) ELSE s

RECURSIVE TrimEnd(_)
TrimEnd(s) ==
  IF s # <<>> /\ s[Len(s)] = " " THEN TrimEnd(SubSeq(s, 1, Len(s) - 1)) ELSE s

trim(s) == TrimEnd(TrimStart(s))

\* s.split(',')
RECURSIVE split(_)
split(str) ==
  Bind(LAMBDA s :
         IF \A k \in 1..Len(s) : s[k] # "," THEN <<s>>
         ELSE LET k == CHOOSE k \in 1..Len(s) :
                         s[k] = "," /\ \A j \in 1..(k - 1) : s[j] # ","
              IN  <<SubSeq(s, 1, k - 1)>> \o split(SubSeq(s, k + 1, Len(s))),
       str)

IsLetter(c) ==
  \E k \in 1..Len(UpperAlpha) : c = UpperAlpha[k] \/ c = LowerAlpha[k]

\* /^[A-Za-z]{2}$/.test(s)
TwoLetters(s) == Len(s) = 2 /\ IsLetter(s[1]) /\ IsLetter(s[2])

\* /^[A-Za-z]{2}\s+[A-Za-z]{2}$/.test(s)
TwoLettersTwice(s) ==
  /\ Len(s) >= 5
  /\ TwoLetters(SubSeq(s, 1, 2))
  /\ TwoLetters(SubSeq(s, Len(s) - 1, Len(s)))
  /\ \A k \in 3..(Len(s) - 2) : s[k] = " "

\* the candidates in order without those whose lowercase form came before
RECURSIVE Uniq(_, _)
Uniq(candidates, seen) ==
  Bind(LAMBDA c :
         IF c = <<>> THEN <<>>
         ELSE IF toLowerCase(Head(c)) \in seen THEN Uniq(Tail(c), seen)
         ELSE <<Head(c)>> \o Uniq(Tail(c), seen \cup {toLowerCase(Head(c))}),
       candidates)

s_UnitedStates == <<"U","n","i","t","e","d"," ","S","t","a","t","e","s">>

\* s.split(',').map(p => p.trim()).filter(Boolean)
Parts(s) ==
  Bind(LAMBDA pieces :
         SelectSeq([k \in 1..Len(pieces) |-> trim(pieces[k])], LAMBDA p : p # <<>>),
       split(s))

\* buildCandidates(rawCity), for rawCity a string
buildCandidates(rawCity) ==
  Bind(LAMBDA s :
    IF s = <<>> THEN <<>>
    ELSE Bind(LAMBDA parts :
      Uniq(
        <<s>> \o
        (IF Len(parts) > 1
           THEN <<parts[1]>> \o
                (IF TwoLetters(parts[2])
                   THEN <<parts[1] \o <<",", " ">> \o s_UnitedStates>>
                 ELSE IF TwoLettersTwice(parts[2]) THEN <<parts[1]>>
                 ELSE <<parts[1] \o <<",", " ">> \o parts[2]>>)
           ELSE <<>>),
        {}),
      Parts(s)),
    trim(rawCity))

\* (r.city || '').toString().trim() for an element r of relays
CityOf(r) ==
  IF r.t = "canonical" THEN trim(JsString(Or(r.city, EmptyString))) ELSE <<>>

\* gatherCityNamesFromRelays(relays), for relays an array
gatherCityNamesFromRelays(a) ==
  Sort({ CityOf(a[k]) : k \in { j \in 1..Len(a) : Truthy(a[j]) } } \ {<<>>})

\* normalizeKey(key), for key a string
normalizeKey(key) == IF key # <<>> THEN trim(key) ELSE <<>>

---------------------------------------------------------------------------
(* The lookup-table updater: one run of main()                             *)
(* Appending to the debug log (logDebug) changes no state of the model.    *)

\* RELAYS_PATH and CITY_COORDS_PATH of the updater: tools/../data/, the
\* project-level files
U_RELAYS_PATH == "ROOT_RELAYS_PATH"
U_CITY_COORDS_PATH == "ROOT_CITY_COORDS_PATH"

\* largest number of distinct city names in relays.json
MaxCities == 2

s_SanJoseCA == <<"S","a","n"," ","J","o","s","e",","," ","C","A">>

\* the city names of the canonical output: one candidate, an all-lowercase
\* name, three candidates
Cities == {s_Tirana, s_durres, s_SanJoseCA}

\* a canonical record of the given city
RelayIn(city) ==
  [ t |-> "canonical", id |-> Str(<<"h","1">>), country |-> Str(s_Unknown),
    countryCode |-> Str(s_XX), city |-> Str(city), lat |-> Null, lon |-> Null,
    ownership |-> Str(s_Mullvad), protocols |-> Arr(<<>>), active |-> Bool(TRUE) ]

\* relays.json holding one record per city of S (in descending order, after
\* a null element and a record without a city)
RelaysFileOf(S) ==
  LET sorted == Sort(S)
      n      == Len(sorted)
  IN  Json(Arr(<<Null, RelayIn(<<>>)>>
               \o [k \in 1..n |-> RelayIn(sorted[n + 1 - k])]))

UpdaterRelaysFiles ==
  { NoFile, Garbage, Json(Arr(<<>>)), Json(Obj(<<>>)) }
  \cup { RelaysFileOf(S) :
           S \in { T \in SUBSET Cities : T # {} /\ Cardinality(T) <= MaxCities } }

\* city-coordinates.json before the run: absent, null, empty, and tables
\* holding an unrelated entry with or without entries of the cities
UpdaterCoordsFiles ==
  { NoFile, Json(Null), Json(Obj(<<>>)) }
  \cup { Json(Obj([k \in S \cup {s_dur} |-> CoordOf(k)])) :
           S \in { {}, {s_Tirana}, {s_tirana}, {s_Tirana, s_tirana}, {s_durres} } }

\* the command lines: no option, --force, --all, --city Tirana, --city " "
Argvs ==
  { [singleCity |-> Null, force |-> f, all |-> a] :
      f \in BOOLEAN, a \in BOOLEAN }
  \cup { [singleCity |-> Str(c), force |-> FALSE, all |-> FALSE] :
           c \in {s_Tirana, <<" ">>} }

UpdaterDisks ==
  { [p \in Paths |->
       CASE p = U_RELAYS_PATH      -> r
         [] p = U_CITY_COORDS_PATH -> c
         [] OTHER                  -> NoFile] :
     r \in UpdaterRelaysFiles, c \in UpdaterCoordsFiles }

InitUpdate ==
  /\ pc = "loadRelays"
  /\ fs \in UpdaterDisks
  /\ fs0 = fs
  /\ cityCoordsFromFile = Obj(<<>>)
  /\ countriesMap = Obj(<<>>)
  /\ res = Undefined
  /\ apiRelays = Undefined
  /\ sanitized = Undefined
  /\ writes = <<>>
  /\ exitCode = "running"
  /\ args = Undefined
  /\ ret = Undefined
  /\ argv \in Argvs
  /\ relays = Undefined
  /\ cityCoords = Undefined
  /\ citiesToProcess = <<>>
  /\ cityIndex = 0
  /\ cand = 1
  /\ attempt = 1
  /\ result = Undefined
  /\ elapsed = 0
  /\ inFlight = 0
  /\ requests = <<>>
  /\ served = Undefined

\* loadJson(pathname): the parsed value, or null on any failure
loadJson(pathname) ==
  IF ReadJson(pathname) = Throw THEN Null ELSE ReadJson(pathname)

\* process.exit(code)
Exit(code) == pc' = "exited" /\ exitCode' = code

\* relays = await loadJson(RELAYS_PATH); exit(1) unless a non-empty array
loadRelays ==
  /\ pc = "loadRelays"
  /\ relays' = loadJson(U_RELAYS_PATH)
  /\ IF relays'.t # "array" \/ relays'.a = <<>>
       THEN Exit(1)
       ELSE pc' = "loadCoords" /\ UNCHANGED exitCode
  /\ UNCHANGED <<fs, fs0, writes, ingestVars, argv, cityCoords, citiesToProcess,
                 cityIndex, cand, attempt, result, elapsed, inFlight, requests,
                 served>>

\* cityCoords = await loadJson(CITY_COORDS_PATH), {} unless a truthy object
loadCoords ==
  /\ pc = "loadCoords"
  /\ cityCoords' =
       LET v == loadJson(U_CITY_COORDS_PATH)
       IN  IF ~Truthy(v) \/ TypeOf(v) # "object" THEN Obj(<<>>) ELSE v
  /\ pc' = "select"
  /\ UNCHANGED <<fs, fs0, writes, exitCode, ingestVars, argv, relays,
                 citiesToProcess, cityIndex, cand, attempt, result, elapsed,
                 inFlight, requests, served>>

\* Object.prototype.hasOwnProperty.call(cityCoords, key)
hasOwnProperty(table, key) == key \in DOMAIN table.f

\* Selected looking for the exact key only
Selected_ExactKeyOnly(cityNames) ==
  IF argv.all THEN cityNames
  ELSE SelectSeq(cityNames,
         LAMBDA city : ~hasOwnProperty(cityCoords, city) \/ argv.force)

\* the names of cityNames that main() selects without --city
Selected(cityNames) ==
  IF argv.all THEN cityNames
  ELSE SelectSeq(cityNames,
         LAMBDA city :
           \/ ~hasOwnProperty(cityCoords, city)
              /\ ~hasOwnProperty(cityCoords, toLowerCase(city))
           \/ argv.force)

\* --city was given with a name that is empty once trimmed
InvalidCityArgument ==
  Truthy(argv.singleCity) /\ normalizeKey(argv.singleCity.s) = <<>>

\* citiesToProcess, as computed by main() when it does not exit on an invalid
\* --city argument
CitiesToProcess ==
  IF Truthy(argv.singleCity)
    THEN <<normalizeKey(argv.singleCity.s)>>
    ELSE Selected(gatherCityNamesFromRelays(relays.a))

selectCities ==
  /\ pc = "select"
  /\ IF InvalidCityArgument
       THEN Exit(1) /\ UNCHANGED citiesToProcess
     ELSE IF CitiesToProcess = <<>>
       THEN Exit(0) /\ UNCHANGED citiesToProcess
     ELSE /\ citiesToProcess' = CitiesToProcess
          /\ pc' = "query"
          /\ UNCHANGED exitCode
  /\ UNCHANGED <<fs, fs0, writes, ingestVars, argv, relays, cityCoords,
                 cityIndex, cand, attempt, result, elapsed, inFlight, requests,
                 served>>

\* the city main() is at, and the candidates findCoordsForCity goes through
City == citiesToProcess[cityIndex + 1]

Candidates == buildCandidates(City)

\* what the geocoding service may answer to one request: no answer (network
\* error), a non-success status, or a success status with a JSON body
GeoFound == Entry(Num(100000), Num(200000))

GeoAnswers ==
  { [kind |-> "network"],
    [kind |-> "http", ok |-> FALSE, body |-> Arr(<<>>)],
    [kind |-> "http", ok |-> TRUE, body |-> Obj(<<>>)],
    [kind |-> "http", ok |-> TRUE, body |-> Arr(<<>>)],
    [kind |-> "http", ok |-> TRUE, body |-> Arr(<<Entry(Str(<<"x">>), Num(200000))>>)],
    [kind |-> "http", ok |-> TRUE, body |-> Arr(<<GeoFound>>)] }

\* parseFloat(x), for the values that reach it
parseFloat(x) == IF x.t = "number" THEN x ELSE NaN

\* what queryNominatimCandidate(candidate) resolves with, given the answer
queryNominatimCandidate(candidate, answer) ==
  IF answer.kind = "network" THEN Null                 \* fetch() rejects
  ELSE IF ~answer.ok THEN Null                         \* !res.ok
  ELSE IF answer.body.t # "array" \/ answer.body.a = <<>> THEN Null
  ELSE LET entry == answer.body.a[1]
           lat   == parseFloat(Field(entry, "lat"))
           lon   == parseFloat(Field(entry, "lon"))
       IN  IF ~IsFinite(lat) \/ ~IsFinite(lon) THEN Null
           ELSE [t |-> "result", lat |-> lat, lon |-> lon, candidate |-> candidate]

\* sleep(ms): at least ms pass; elapsed is counted up to WAIT_MS
Slept(ms) == IF elapsed + ms > WAIT_MS THEN WAIT_MS ELSE elapsed + ms

\* queryNominatimCandidate calls fetch(url): the request leaves
sendRequest ==
  /\ pc = "query"
  /\ inFlight' = inFlight + 1
  /\ requests' = Append(requests, [ city      |-> City,
                                    candidate |-> Candidates[cand],
                                    attempt   |-> attempt,
                                    gap       |-> elapsed,
                                    found     |-> FALSE ])
  /\ pc' = "awaiting"
  /\ UNCHANGED <<fs, fs0, writes, exitCode, ingestVars, argv, relays,
                 cityCoords, citiesToProcess, cityIndex, cand, attempt, result,
                 elapsed, served>>

\* a findCoordsForCity that takes a result only from the retry of a candidate
receiveAnswer_RetriesAfterResult ==
  /\ pc = "awaiting"
  /\ \E answer \in GeoAnswers :
       LET r == queryNominatimCandidate(Candidates[cand], answer) IN
       /\ IF Truthy(r) /\ attempt = 2
            THEN result' = r /\ pc' = "store" /\ UNCHANGED <<cand, attempt>>
          ELSE IF attempt = 1
            THEN pc' = "backoff" /\ UNCHANGED <<cand, attempt, result>>
          ELSE IF cand < Len(Candidates)
            THEN /\ cand' = cand + 1
                 /\ attempt' = 1
                 /\ pc' = "query"
                 /\ UNCHANGED result
          ELSE result' = Null /\ pc' = "store" /\ UNCHANGED <<cand, attempt>>
       /\ requests' = [requests EXCEPT ![Len(requests)].found = Truthy(r)]
  /\ inFlight' = inFlight - 1
  /\ elapsed' = 0
  /\ UNCHANGED <<fs, fs0, writes, exitCode, ingestVars, argv, relays,
                 cityCoords, citiesToProcess, cityIndex, served>>

\* the request returns; findCoordsForCity returns the result, or goes to the
\* retry, or to the next candidate, or returns null after the last one
receiveAnswer ==
  /\ pc = "awaiting"
  /\ \E answer \in GeoAnswers :
       LET r == queryNominatimCandidate(Candidates[cand], answer) IN
       /\ IF Truthy(r)
            THEN result' = r /\ pc' = "store" /\ UNCHANGED <<cand, attempt>>
          ELSE IF attempt = 1
            THEN pc' = "backoff" /\ UNCHANGED <<cand, attempt, result>>
          ELSE IF cand < Len(Candidates)
            THEN /\ cand' = cand + 1
                 /\ attempt' = 1
                 /\ pc' = "query"
                 /\ UNCHANGED result
          ELSE result' = Null /\ pc' = "store" /\ UNCHANGED <<cand, attempt>>
       /\ requests' = [requests EXCEPT ![Len(requests)].found = Truthy(r)]
  /\ inFlight' = inFlight - 1
  /\ elapsed' = 0
  /\ UNCHANGED <<fs, fs0, writes, exitCode, ingestVars, argv, relays,
                 cityCoords, citiesToProcess, cityIndex, served>>

\* await sleep(1000) before the retry of the candidate
backoff ==
  /\ pc = "backoff"
  /\ elapsed' = Slept(RetryBackoffMs)
  /\ attempt' = 2
  /\ pc' = "query"
  /\ UNCHANGED <<fs, fs0, writes, exitCode, ingestVars, argv, relays,
                 cityCoords, citiesToProcess, cityIndex, cand, result, inFlight,
                 requests, served>>

\* { lat: Number(result.lat), lon: Number(result.lon) }
CoordsOfResult == Entry(ToNumber(result.lat), ToNumber(result.lon))

\* a table that holds only the entries of the city just looked up
Stored_OnlyNewEntries ==
  IF ~Truthy(result) THEN cityCoords
  ELSE Obj((City :> CoordsOfResult) @@ (toLowerCase(City) :> CoordsOfResult))

\* the table after `if (result) {...}`: the exact key is assigned; the
\* lowercase key is assigned when the table has no such own property
Stored ==
  IF ~Truthy(result) THEN cityCoords
  ELSE LET exact == Obj((City :> CoordsOfResult) @@ cityCoords.f)
       IN  IF hasOwnProperty(exact, toLowerCase(City)) THEN exact
           ELSE Obj((toLowerCase(City) :> CoordsOfResult) @@ exact.f)

storeResult ==
  /\ pc = "store"
  /\ cityCoords' = Stored
  /\ pc' = "save"
  /\ UNCHANGED <<fs, fs0, writes, exitCode, ingestVars, argv, relays,
                 citiesToProcess, cityIndex, cand, attempt, result, elapsed,
                 inFlight, requests, served>>

\* what JSON.stringify(obj, null, 2) holds once parsed back, for a table
JsonTable(obj) ==
  Obj([k \in DOMAIN obj.f |->
         IF obj.f[k].t = "entry"
           THEN Entry(JsonNumber(obj.f[k].lat), JsonNumber(obj.f[k].lon))
           ELSE obj.f[k]])

\* try { await saveJson(CITY_COORDS_PATH, cityCoords) } catch { warn }
saveCityCoords ==
  /\ WriteFile("save", U_CITY_COORDS_PATH, JsonTable(cityCoords),
               IF cityIndex < Len(citiesToProcess) - 1 THEN "wait" ELSE "done")
  /\ UNCHANGED <<fs0, exitCode, ingestVars, updaterVars, served>>

\* await sleep(WAIT_MS), then the next iteration of the loop
waitBetweenCities ==
  /\ pc = "wait"
  /\ elapsed' = Slept(WAIT_MS)
  /\ cityIndex' = cityIndex + 1
  /\ cand' = 1
  /\ attempt' = 1
  /\ result' = Undefined
  /\ pc' = "query"
  /\ UNCHANGED <<fs, fs0, writes, exitCode, ingestVars, argv, relays,
                 cityCoords, citiesToProcess, inFlight, requests, served>>

\* process.exit(0) after the loop
finish ==
  /\ pc = "done"
  /\ Exit(0)
  /\ UNCHANGED <<fs, fs0, writes, ingestVars, updaterVars, served>>

NextUpdate ==
  \/ loadRelays
  \/ loadCoords
  \/ selectCities
  \/ sendRequest
  \/ receiveAnswer
  \/ backoff
  \/ storeResult
  \/ saveCityCoords
  \/ waitBetweenCities
  \/ finish

SpecUpdate == InitUpdate /\ [][NextUpdate]_vars

---------------------------------------------------------------------------
(* Claims about the updater (checked under SpecUpdate)                     *)

\* C16 (as claimed): never two geocoding requests in flight, and at least
\* WAIT_MS pass between every two consecutive requests: before a retry of
\* the same candidate, before the next candidate of the same city, and
\* before the first request of the next city.
C16_RequestsSpacedByWaitMs ==
  /\ inFlight <= 1
  /\ \A k \in 2..Len(requests) : requests[k].gap >= WAIT_MS

\* the lookup of the current city returned a result and main() has stored it
LookupStored == pc \in {"save", "wait", "done"} /\ Truthy(result)

\* C17 (as claimed): once the lookup of a city C has succeeded and been
\* stored, the table maps both C and lower(C) to the coordinate the service
\* returned, whatever it held under those keys before.
C17_BothKeysHoldNewCoordinate ==
  LookupStored =>
    /\ Lookup(cityCoords, City) = Entry(result.lat, result.lon)
    /\ Lookup(cityCoords, toLowerCase(City)) = Entry(result.lat, result.lon)

\* the k-th city of citiesToProcess has been looked up and the save that
\* follows its lookup is over
Completed(k) ==
  \/ k <= cityIndex
  \/ k = cityIndex + 1 /\ pc \in {"wait", "done", "exited"}

\* some request for the k-th city returned a place
Succeeded(k) ==
  \E n \in 1..Len(requests) :
    requests[n].city = citiesToProcess[k] /\ requests[n].found

\* the table city-coordinates.json holds
Persisted == fs[U_CITY_COORDS_PATH]

\* C18 (as claimed): the table is persisted after the lookup of each city,
\* found or not, before the lookup of the next city starts: one save per
\* completed city, and at every point of the run (where it may be
\* interrupted) the persisted table holds the entry of every city whose
\* successful lookup is completed.
C18_PersistedAfterEachCity ==
  /\ Len(writes) = Cardinality({ k \in 1..Len(citiesToProcess) : Completed(k) })
  /\ \A k \in 1..Len(citiesToProcess) :
       Completed(k) /\ Succeeded(k)
         => /\ Persisted.state = "json"
            /\ Lookup(Persisted.v, citiesToProcess[k]) = GeoFound

\* the coordinate table and the city names the run starts from
TableAtStart ==
  IF fs0[U_CITY_COORDS_PATH].state = "json"
       /\ fs0[U_CITY_COORDS_PATH].v.t = "object"
    THEN fs0[U_CITY_COORDS_PATH].v ELSE Obj(<<>>)

NamesInRelays ==
  IF fs0[U_RELAYS_PATH].state = "json" /\ fs0[U_RELAYS_PATH].v.t = "array"
    THEN LET a == fs0[U_RELAYS_PATH].v.a
         IN  { CityOf(a[k]) : k \in { j \in 1..Len(a) : Truthy(a[j]) } } \ {<<>>}
    ELSE {}

\* the set of names of the run: the single supplied name, or the names of
\* the canonical output
NameSet ==
  IF Truthy(argv.singleCity) THEN {trim(argv.singleCity.s)} \ {<<>>}
  ELSE NamesInRelays

\* the name is a key of the table, as it is or lowercased
InTable(name) ==
  \/ name \in DOMAIN TableAtStart.f
  \/ toLowerCase(name) \in DOMAIN TableAtStart.f

Queried(name) == \E n \in 1..Len(requests) : requests[n].city = name

Forced == argv.force \/ argv.all

\* the run went through its list of cities and ended with exit code 0
RanToEnd == pc = "exited" /\ exitCode = 0

---------------------------------------------------------------------------
(* The serving endpoint (server.js): GET /api/relays, answered while an    *)
(* ingest() run may be under way                                           *)

\* dataPath of the handler: data/relays.json of the project
dataPath == "ROOT_RELAYS_PATH"

\* what data/relays.json may hold when the server starts: nothing, text
\* that is not JSON, an earlier run's output, JSON that is no array
ServedFiles ==
  { NoFile, Garbage, Json(OldRelays), Json(Arr(<<>>)), Json(Obj(<<>>)), Json(Null) }

ServeDisks ==
  { [p \in Paths |-> IF p = dataPath THEN f ELSE NoFile] : f \in ServedFiles }

InitServe ==
  /\ pc = "ensureDataDir"
  /\ fs \in ServeDisks
  /\ fs0 = fs
  /\ cityCoordsFromFile = Obj(<<>>)
  /\ countriesMap = Obj(<<>>)
  /\ res = Undefined
  /\ apiRelays = Undefined
  /\ sanitized = Undefined
  /\ writes = <<>>
  /\ exitCode = "running"
  /\ args = Undefined
  /\ ret = Undefined
  /\ UpdaterIdle
  /\ served = Undefined

\* one element of the body, as JSON.stringify writes it
JsonElement(r) ==
  IF r.t = "canonical"
    THEN [r EXCEPT !.id = JsonNumber(@), !.country = JsonNumber(@),
                   !.lat = JsonNumber(@), !.lon = JsonNumber(@)]
    ELSE JsonNumber(r)

\* res.json(data): status 200 and the JSON text of data, held as the value
\* a client parses from it
ResJson(data) ==
  [ status |-> 200,
    body   |-> IF data.t = "array"
                 THEN Arr([k \in 1..Len(data.a) |-> JsonElement(data.a[k])])
                 ELSE JsonNumber(data) ]

\* the handler answering res.status(500) when the file cannot be read or
\* parsed
getRelays_ErrorStatus ==
  /\ served' = IF ReadJson(dataPath) # Throw
                 THEN ResJson(ReadJson(dataPath))
                 ELSE [status |-> 500, body |-> Arr(<<>>)]
  /\ UNCHANGED <<pc, fs, fs0, writes, exitCode, ingestVars, updaterVars>>

\* app.get('/api/relays', ...): read and parse the file and answer with its
\* content; on any error answer with []
getRelays ==
  /\ served' = IF ReadJson(dataPath) # Throw
                 THEN ResJson(ReadJson(dataPath))
                 ELSE ResJson(Arr(<<>>))
  /\ UNCHANGED <<pc, fs, fs0, writes, exitCode, ingestVars, updaterVars>>

NextServe ==
  \/ getRelays
  \/ ensureDataDir
  \/ loadCityCoords
  \/ loadCountries
  \/ Fetched
  \/ FetchFailed
  \/ writeRaw
  \/ writeRootRaw
  \/ mapRelays
  \/ mapThrows
  \/ writeRelays
  \/ writeRootRelays

SpecServe == InitServe /\ [][NextServe]_vars

\* C20: GET /api/relays never answers with an error status: it answers 200
\* with the parsed content of data/relays.json, unchanged, when the file can
\* be read and parsed, and with an empty array on any read or parse failure.
C20_RelaysNeverErrorStatus ==
  [][getRelays =>
       /\ served'.status = 200
       /\ served'.body = IF fs[dataPath].state = "json"
                           THEN fs[dataPath].v ELSE Arr(<<>>)]_vars

\* a request was answered 200 with [] while the file held no JSON
C20_Witness ==
  /\ served # Undefined
  /\ served.status = 200
  /\ served.body = Arr(<<>>)
  /\ fs[dataPath] = Garbage

\* C21 (as claimed): once a run has written a canonical artifact (here: the
\* server started on the output of an earlier run), every answer of GET
\* /api/relays, at any point of a later run, is the complete output of a
\* completed run: the earlier run's, or the present run's once written; it
\* is never an empty array because a run is in progress or has failed.
C21_AlwaysServesSomeRunsOutput ==
  fs0[dataPath] = Json(OldRelays) /\ served # Undefined
    => /\ served.status = 200
       /\ served.body # Arr(<<>>)
       /\ \/ served.body = OldRelays
          \/ /\ FetchSucceeded
             /\ WrittenOk(dataPath)
             /\ served.body = CanonicalOf(res)

\* the country display name of a canonical record has a centroid entry
HasCentroid(country) ==
  country.t = "string" /\ country.s \in DOMAIN countryCentroids

\* steps 1 to 4 of the resolution give no match for the call's arguments
NoCityMatch ==
  LET a == ResolveArgsOf(args) IN
  \A n \in 1..Len(CandidateKeys(a)) : ~NumericEntry(CandidateKeys(a)[n])

\* C23 (as claimed): when steps 1 to 4 give no match, the coordinates of the
\* canonical record are the centroid entry of the country display name in the
\* record's own country field whenever that name has an entry, and the record
\* is unresolved only if that name has no centroid entry.
C23_CentroidOfCountryField ==
  Returned /\ NoCityMatch =>
    /\ HasCentroid(ret.country) =>
         /\ ret.lat = countryCentroids[ret.country.s].a[1]
         /\ ret.lon = countryCentroids[ret.country.s].a[2]
    /\ ret.lat = Null /\ ret.lon = Null => ~HasCentroid(ret.country)

\* the keys a run may assign: the processed names and their lowercased forms
ProcessedKeys ==
  { citiesToProcess[k] : k \in 1..Len(citiesToProcess) }
    \cup { toLowerCase(citiesToProcess[k]) : k \in 1..Len(citiesToProcess) }

\* table holds key with the entry the table loaded at start holds under it
KeptIn(table, key) ==
  table.t = "object" /\ key \in DOMAIN table.f /\ table.f[key] = TableAtStart.f[key]

\* the step from cityCoords to cityCoords' leaves every key outside keys as
\* it is: neither added, nor removed, nor given another entry
ChangesAtMost(keys) ==
  /\ DOMAIN cityCoords'.f \ keys = DOMAIN cityCoords.f \ keys
  /\ \A k \in DOMAIN cityCoords.f \ keys : cityCoords'.f[k] = cityCoords.f[k]

---------------------------------------------------------------------------
(* SpecUpdateFair: the updater run with the scheduling of the event loop   *)

\* Every awaited step of main() is resumed once its promise settles: file
\* reads and writes and timers settle by themselves, and each request to the
\* geocoding service returns (a result, an empty result or an error).
SpecUpdateFair == SpecUpdate /\ WF_vars(NextUpdate)

\* the requests of the run for one city, in the order they were sent
RequestsFor(city) == SelectSeq(requests, LAMBDA q : q.city = city)

\* each of the candidates twice, in generation order
RequestPlan(candidates) ==
  [ n \in 1..(2 * Len(candidates)) |->
      [candidate |-> candidates[(n + 1) \div 2], attempt |-> 2 - (n % 2)] ]

\* the requests sent are a prefix of the plan that stops at the first
\* request that yields a result
StopsAtFirstResult(sent, plan) ==
  /\ Len(sent) <= Len(plan)
  /\ \A n \in 1..Len(sent) :
       /\ sent[n].candidate = plan[n].candidate
       /\ sent[n].attempt = plan[n].attempt
       /\ n < Len(sent) => ~sent[n].found

\* C25: a run that has its list of cities to process terminates with exit
\* code 0 when each request eventually returns; it sends at most two requests
\* per candidate string of a city and tries at most three candidate strings
\* per city, in generation order, and sends no further request for a city
\* after the first request that yields a result.
C25_TerminatesWithinRequestBudget ==
  /\ (pc = "query") ~> RanToEnd
  /\ [](\A n \in 1..Len(requests) :
          \E k \in 1..Len(citiesToProcess) : requests[n].city = citiesToProcess[k])
  /\ [](\A k \in 1..Len(citiesToProcess) :
          \A candidates \in {buildCandidates(citiesToProcess[k])} :
            /\ Len(candidates) <= 3
            /\ \A sent \in {RequestsFor(citiesToProcess[k])} :
                 /\ Len(sent) <= 2 * Len(candidates)
                 /\ StopsAtFirstResult(sent, RequestPlan(candidates)))

\* C25 witness: a run of two cities ended with exit code 0; one city was
\* given up after two requests for each of its three candidates, the other
\* got its result from the retry of its first candidate and no request more.
C25_Witness ==
  /\ RanToEnd
  /\ \E j, k \in 1..Len(citiesToProcess) :
       LET a == RequestsFor(citiesToProcess[j])
           b == RequestsFor(citiesToProcess[k])
       IN  /\ Len(a) = 6
           /\ \A n \in 1..6 : ~a[n].found
           /\ Len(b) = 2
           /\ b[2].found

---------------------------------------------------------------------------
(* SpecRefresh: a run of the updater followed by `npm run ingest`          *)

\* the disks of the refresh: relays.json of an earlier ingestion with two
\* cities; the project-level table absent or holding a lowercase entry of
\* one of them; tools/data/city-coordinates.json absent or present
RefreshDisks ==
  { [p \in Paths |->
       CASE p = U_RELAYS_PATH      -> RelaysFileOf({s_Tirana, s_durres})
         [] p = U_CITY_COORDS_PATH -> c
         [] p = "CITY_COORDS_PATH" -> t
         [] OTHER                  -> NoFile] :
     c \in { NoFile, Json(Obj(s_tirana :> CoordOf(s_tirana))) },
     t \in { NoFile, Json(Obj(s_dur :> CoordOf(s_dur))) } }

\* node tools/update-city-coords.js --all, or --city Tirana
InitRefresh ==
  /\ pc = "loadRelays"
  /\ fs \in RefreshDisks
  /\ fs0 = fs
  /\ cityCoordsFromFile = Obj(<<>>)
  /\ countriesMap = Obj(<<>>)
  /\ res = Undefined
  /\ apiRelays = Undefined
  /\ sanitized = Undefined
  /\ writes = <<>>
  /\ exitCode = "running"
  /\ args = Undefined
  /\ ret = Undefined
  /\ argv \in { [singleCity |-> Null, force |-> FALSE, all |-> TRUE],
                [singleCity |-> Str(s_Tirana), force |-> FALSE, all |-> FALSE] }
  /\ relays = Undefined
  /\ cityCoords = Undefined
  /\ citiesToProcess = <<>>
  /\ cityIndex = 0
  /\ cand = 1
  /\ attempt = 1
  /\ result = Undefined
  /\ elapsed = 0
  /\ inFlight = 0
  /\ requests = <<>>
  /\ served = Undefined

\* `npm run ingest` after the updater has ended with exit code 0: a new
\* process on the disk the updater left; the memory of the updater is gone
startIngest ==
  /\ pc = "exited"
  /\ exitCode = 0
  /\ relays # Undefined
  /\ pc' = "ensureDataDir"
  /\ exitCode' = "running"
  /\ writes' = <<>>
  /\ fs0' = fs
  /\ argv' = Undefined
  /\ relays' = Undefined
  /\ cityCoords' = Undefined
  /\ citiesToProcess' = <<>>
  /\ cityIndex' = 0
  /\ cand' = 1
  /\ attempt' = 1
  /\ result' = Undefined
  /\ elapsed' = 0
  /\ inFlight' = 0
  /\ requests' = <<>>
  /\ UNCHANGED <<fs, ingestVars, served>>

NextRefresh ==
  \/ loadRelays
  \/ loadCoords
  \/ selectCities
  \/ sendRequest
  \/ receiveAnswer
  \/ backoff
  \/ storeResult
  \/ saveCityCoords
  \/ waitBetweenCities
  \/ finish
  \/ startIngest
  \/ ensureDataDir
  \/ loadCityCoords
  \/ loadCountries
  \/ Fetched
  \/ FetchFailed
  \/ writeRaw
  \/ writeRootRaw
  \/ mapRelays
  \/ mapThrows
  \/ writeRelays
  \/ writeRootRelays

SpecRefresh == InitRefresh /\ [][NextRefresh]_vars

\* the table the updater left in data/city-coordinates.json
UpdatedTable ==
  IF fs[U_CITY_COORDS_PATH].state = "json" /\ fs[U_CITY_COORDS_PATH].v.t = "object"
    THEN fs[U_CITY_COORDS_PATH].v ELSE Obj(<<>>)

\* the updater has stored the coordinates the service returned under name
StoredByUpdater(name) ==
  name \in DOMAIN UpdatedTable.f /\ UpdatedTable.f[name] = GeoFound

\* the ingestion run started after the updater has regenerated path
Regenerated(path) ==
  /\ relays = Undefined
  /\ WrittenOk(path)
  /\ fs[path].state = "json"

\* C22 (as claimed): in the canonical output regenerated by the ingestion
\* run that follows the updater, every relay whose city is a name C the
\* updater has stored coordinates for, and whose city code has no entry of
\* its own in the table, has exactly the stored coordinates.
C22_NextIngestUsesStoredCoords ==
  \A p \in CanonicalPaths :
    Regenerated(p) =>
      \A n \in 1..Len(fs[p].v.a) :
        LET out  == fs[p].v.a[n]
            code == Prop(apiRelays.a[n], "city_code")
        IN  /\ out.city.t = "string"
            /\ StoredByUpdater(out.city.s)
            /\ ~(Truthy(code) /\ JsString(code) \in DOMAIN UpdatedTable.f)
            => /\ out.lat = UpdatedTable.f[out.city.s].lat
               /\ out.lon = UpdatedTable.f[out.city.s].lon

=============================================================================
